---- MODULE Spec2Model ----
(***************************************************************************)
(* A model of the QR studio core: the Image Resolver (loadImage,           *)
(* loadFaviconImage), the Favicon Resolution Engine (fetchFavicon and its  *)
(* caller handleFetchFavicon) and the raster pipeline (generateQRCanvas,   *)
(* applyDesignStyle, addLogoToCanvas, addBorderToCanvas) with its callers. *)
(*                                                                         *)
(* JavaScript runs one task at a time: every action below is one task (an  *)
(* event handler, a timer callback, or the synchronous part of an async    *)
(* function up to its next await).  The continuation of an await is a      *)
(* separate action, enabled once the awaited promise is fulfilled.         *)
(*                                                                         *)
(* Platform facts the model relies on (HTML standard):                     *)
(*  - a promise settles once: resolve() on a settled promise does nothing; *)
(*  - getContext('2d') on a canvas that has no other context never returns *)
(*    null, so the `if (!ctx)` branches are unreachable;                   *)
(*  - an <img> fires at most one of load/error per request; assigning      *)
(*    src = '' abandons the current request and queues one error event;    *)
(*  - images are requested with crossOrigin = 'anonymous', so a canvas they*)
(*    are drawn on stays origin-clean and toDataURL does not throw.        *)
(*  - getImageData throws for a rectangle of zero width or height, and    *)
(*    drawImage for a source canvas of zero width or height;               *)
(*  - a canvas dimension set to a number outside 0..2^31 - 1 becomes its   *)
(*    default, 300 for the width and 150 for the height;                   *)
(*  - fill and drawImage composite source-over.                            *)
(*                                                                         *)
(* The pipeline is modelled twice: on display lists (which drawing calls a *)
(* canvas received), for the callers and the order of the stages, and on   *)
(* pixels, for applyDesignStyle, drawStyledModule, addBorderToCanvas and   *)
(* calculateLogoPosition taken one call at a time.                         *)
(***************************************************************************)
EXTENDS Integers, Sequences, FiniteSets, TLC

VARIABLES
    loads,    \* the Image Resolver calls: id -> load record
    nextLoad, \* the id the next Image Resolver call gets
    fav,      \* the fetchFavicon call
    lm,       \* the state of the LogoManager component
    selectedLogo, \* Index's selectedLogo state, set through onLogoChange
    app,      \* the rest of the component state: Index, LivePreview, the
              \* preview modal and the BatchGenerator
    runs,     \* the calls of the async pipeline callers
    heap,     \* the canvases: id -> canvas
    nextCanvas, \* the id the next canvas gets
    raster    \* one call of applyDesignStyle or drawStyledModule on a
              \* pixel buffer: its arguments, locals and position

loadVars == <<loads, nextLoad>>
favVars == <<fav, lm, selectedLogo>>
pipeVars == <<app, runs, heap, nextCanvas>>
rasterVars == <<raster>>
vars == <<loads, nextLoad, fav, lm, selectedLogo, app, runs, heap, nextCanvas,
         raster>>

\* ---------------------------------------------------------------- constants

LoadImageTimeoutMs == 5000
FaviconTimeoutMs == 5000
MinIconPx == 16
FaviconCanvasPx == 256

\* ------------------------------------------------------------------- bounds

\* The longest step of the clock.
TickMs == 5000
\* Image Resolver calls made by the test harness of SpecLoad.
MaxLoads == 2

\* Pixel dimensions a decoded image may have.
ImgDims == {MinIconPx - 1, MinIconPx, 20}

\* ------------------------------------------------------------------- values

None == [tag |-> "none"]
Img(src, w, h) == [tag |-> "img", src |-> src, w |-> w, h |-> h]

Min2(a, b) == IF a <= b THEN a ELSE b

\* ---------------------------------------------------------- Image Resolver

\* The promise's resolve function: the first call fulfils the promise and
\* hands the value to the awaiting caller, every later call is ignored.
ResolveAlways(l, v) ==
    [l EXCEPT !.state = "fulfilled", !.value = v, !.observed = Append(@, v)]

Resolve(l, v) ==
    IF l.state = "pending"
    THEN [l EXCEPT !.state = "fulfilled", !.value = v, !.observed = Append(@, v)]
    ELSE l

\* setTimeout's delay of each resolver.
TimeoutOf(kind) ==
    IF kind = "loadImage" THEN LoadImageTimeoutMs ELSE FaviconTimeoutMs

\* The state right after `new Promise(executor)` returned: the image element
\* exists, its handlers are set, src is assigned (one decode attempt) and the
\* timer is armed.  elapsed is the time since then, counted while the timer
\* is armed; owner is the caller awaiting the promise.
NewLoad(kind, owner, src) ==
    [kind     |-> kind,
     owner    |-> owner,
     src      |-> src,
     state    |-> "pending",
     value    |-> None,
     observed |-> <<>>,
     timer    |-> "armed",
     elapsed  |-> 0,
     request  |-> "loading",
     decodes  |-> 1,
     events   |-> <<>>]

\* favicon normalisation: the image drawn, centred and scaled to fit, on a
\* white FaviconCanvasPx square, encoded as a PNG data URL.
NormalizeFavicon(img) ==
    [tag |-> "png", size |-> FaviconCanvasPx, bg |-> "#ffffff", of |-> img]

\* What each handler passes to resolve.
OnloadOutcomeSquareOnly(l, w, h) ==
    IF l.kind = "loadImage"
    THEN Img(l.src, w, h)
    ELSE IF w < MinIconPx \/ h < MinIconPx \/ w # h
         THEN None
         ELSE NormalizeFavicon(Img(l.src, w, h))

OnloadOutcome(l, w, h) ==
    IF l.kind = "loadImage"
    THEN Img(l.src, w, h)
    ELSE IF w < MinIconPx \/ h < MinIconPx
         THEN None
         ELSE NormalizeFavicon(Img(l.src, w, h))

\* The history of a call: the events that fired, in order, each with what its
\* handler passed to resolve (and, for a load event, the decoded size).
Log(l, ev, out, w, h) ==
    [l EXCEPT !.events = Append(@, [ev |-> ev, out |-> out, w |-> w, h |-> h])]

\* img.onload
LoadImageOnload(l, w, h) == Resolve(l, OnloadOutcome(l, w, h))

FaviconOnload(l, w, h) ==
    Resolve([l EXCEPT !.timer = IF @ = "armed" THEN "cleared" ELSE @],
            OnloadOutcome(l, w, h))

HandleOnload(l, w, h) ==
    LET h1 == IF l.kind = "loadImage"
              THEN LoadImageOnload(l, w, h)
              ELSE FaviconOnload(l, w, h)
    IN  Log([h1 EXCEPT !.request = "done"], "load", OnloadOutcome(l, w, h), w, h)

\* img.onerror
LoadImageOnerrorRejects(l) == [l EXCEPT !.state = "rejected"]

LoadImageOnerror(l) == Resolve(l, None)

FaviconOnerror(l) ==
    Resolve([l EXCEPT !.timer = IF @ = "armed" THEN "cleared" ELSE @], None)

HandleOnerror(l) ==
    LET h1 == IF l.kind = "loadImage" THEN LoadImageOnerror(l) ELSE FaviconOnerror(l)
    IN  Log([h1 EXCEPT !.request = "done"], "error", None, 0, 0)

\* the setTimeout callback
LoadImageTimeout(l) == Resolve(l, None)

\* A timer callback that leaves the request and the promise alone.
FaviconTimeoutIgnored(l) == l

\* img.src = '' abandons the request; the element then gets one error event.

FaviconTimeout(l) == Resolve([l EXCEPT !.request = "empty"], None)

HandleTimeout(l) ==
    LET h1 == IF l.kind = "loadImage" THEN LoadImageTimeout(l) ELSE FaviconTimeout(l)
    IN  Log([h1 EXCEPT !.timer = "fired"], "timeout", None, 0, 0)

LoadIds == DOMAIN loads

\* A load nothing can happen to any more: its promise is settled, its image
\* request is over and its timer is not armed.  Once its caller has gone on,
\* nothing refers to it and the garbage collector takes it; the loads of
\* SpecLoad's direct calls are kept for inspection.
Dead(l) == l.state = "fulfilled" /\ l.request = "done" /\ l.timer # "armed"

Collect(ls, keep) ==
    [i \in {j \in DOMAIN ls :
               ls[j].owner = "direct" \/ j \in keep \/ ~Dead(ls[j])} |-> ls[i]]

\* The loads a running caller still refers to.
PipelineRoots ==
    {runs[k].load : k \in {j \in 1..Len(runs) : runs[j].pc = "logo"}}

Roots ==
    (IF fav.state = "probing" \/ fav.state = "done" THEN {fav.load} ELSE {})
        \cup PipelineRoots

\* The natural sizes a decoded image may have: around the size test for a
\* favicon, which loadImage does not make.
DimsOf(kind) ==
    IF kind = "loadFaviconImage" THEN ImgDims \X ImgDims
    ELSE {<<MinIconPx - 1, 20>>, <<20, 20>>}

\* The decode of load i completes: the load event fires.
ImgLoad(i) ==
    /\ i \in LoadIds
    /\ loads[i].request = "loading"
    /\ \E d \in DimsOf(loads[i].kind) :
          loads' = Collect([loads EXCEPT ![i] = HandleOnload(@, d[1], d[2])], Roots)
    /\ UNCHANGED nextLoad

\* The decode of load i fails, or the empty src is reported: the error event.
ImgError(i) ==
    /\ i \in LoadIds
    /\ loads[i].request \in {"loading", "empty"}
    /\ loads' = Collect([loads EXCEPT ![i] = HandleOnerror(@)], Roots)
    /\ UNCHANGED nextLoad

\* The timer of load i fires, no earlier than its delay after it was armed.
TimerFire(i) ==
    /\ i \in LoadIds
    /\ loads[i].timer = "armed"
    /\ loads[i].elapsed >= TimeoutOf(loads[i].kind)
    /\ loads' = Collect([loads EXCEPT ![i] = HandleTimeout(@)], Roots)
    /\ UNCHANGED nextLoad

\* A direct call of one of the two resolvers.
Srcs == {"remote", "data"}

CallLoad(kind, src) ==
    /\ nextLoad <= MaxLoads
    /\ loads' = (nextLoad :> NewLoad(kind, "direct", src)) @@ loads
    /\ nextLoad' = nextLoad + 1

\* ------------------------------------------------------------------ strings

\* A string is a sequence of characters; a fixed piece of a URL template is
\* kept as one element.
Str_http == <<"h", "t", "t", "p", ":", "/", "/">>
Str_https == <<"h", "t", "t", "p", "s", ":", "/", "/">>
Str_host == <<"a", ".", "i", "o">>

StartsWith(s, p) == Len(s) >= Len(p) /\ SubSeq(s, 1, Len(p)) = p

RECURSIVE TrimStart(_)
TrimStart(s) == IF s # <<>> /\ Head(s) = " " THEN TrimStart(Tail(s)) ELSE s

RECURSIVE TrimEnd(_)
TrimEnd(s) ==
    IF s # <<>> /\ s[Len(s)] = " " THEN TrimEnd(SubSeq(s, 1, Len(s) - 1)) ELSE s

\* String.prototype.trim
Trim(s) == TrimEnd(TrimStart(s))

\* The scheme normalisation fetchFavicon and handleFetchFavicon both apply.
NormalizeUrl(url) ==
    LET t == Trim(url) IN
    IF ~StartsWith(t, Str_http) /\ ~StartsWith(t, Str_https)
    THEN Str_https \o t
    ELSE t

\* new URL(s) for s starting with http:// or https:// over the characters
\* used here: the host runs up to the first "/", and parsing throws when the
\* host is empty or holds a space.
SchemeOf(s) == IF StartsWith(s, Str_https) THEN Str_https ELSE Str_http

RECURSIVE UpToSlash(_)
UpToSlash(s) ==
    IF s = <<>> \/ Head(s) = "/" THEN <<>> ELSE <<Head(s)>> \o UpToSlash(Tail(s))

ParseUrl(s) ==
    LET rest == SubSeq(s, Len(SchemeOf(s)) + 1, Len(s))
        host == UpToSlash(rest)
    IN  [ok       |-> host # <<>> /\ \A k \in 1..Len(host) : host[k] # " ",
         hostname |-> host,
         origin   |-> SchemeOf(s) \o host]

\* The candidate list, priority first.
FaviconSources(u) ==
    << <<"https://www.google.com/s2/favicons?domain=">> \o u.hostname \o <<"&sz=256">>,
       <<"https://icons.duckduckgo.com/ip3/">> \o u.hostname \o <<".ico">>,
       <<"https://logo.clearbit.com/">> \o u.hostname,
       <<"https://api.faviconkit.com/">> \o u.hostname \o <<"/256">>,
       u.origin \o <<"/apple-touch-icon.png">>,
       u.origin \o <<"/apple-touch-icon-precomposed.png">>,
       u.origin \o <<"/favicon-32x32.png">>,
       u.origin \o <<"/favicon.ico">> >>

\* --------------------------------------------------- Favicon Resolution Engine

\* The site URLs tried: one without a scheme, one with a scheme and padded
\* with blanks, and three that new URL() rejects.
Urls ==
    { Str_host,
      <<" ">> \o Str_http \o Str_host \o <<"/", "x", " ">>,
      <<"a", " ", "b">>,
      Str_https,
      <<>> }

\* The URLs typed into the LogoManager's form.
LmUrls == {Str_host, <<"a", " ", "b">>, <<"a">>}

FavIdle ==
    [state |-> "idle", caller |-> "none", url |-> <<>>, normalized |-> <<>>,
     sources |-> <<>>, i |-> 0, load |-> 0, result |-> None, probed |-> <<>>,
     elapsed |-> 0]

\* `await loadFaviconImage(src)`: the loop goes on once the promise is settled.
ProbeSettledNoAwait(l) == TRUE

ProbeSettled(l) == l.state # "pending"

\* The loop's successor: the candidate after candidate i.
NextIndexRetry(i) == IF i > 1 THEN i - 1 ELSE i + 1

NextIndex(i) == i + 1

\* The outer catch of fetchFavicon: the error is logged and null is returned.
OnUrlErrorThrows(f) == [f EXCEPT !.state = "threw"]

OnUrlError(f) == [f EXCEPT !.state = "done", !.result = None]

\* The loop calls loadFaviconImage(sources[i]).
StartProbe(f, i) ==
    /\ fav' = [f EXCEPT !.state = "probing", !.i = i, !.load = nextLoad,
                        !.probed = Append(@, i)]
    /\ loads' = (nextLoad :> NewLoad("loadFaviconImage", "fetchFavicon", f.sources[i]))
                   @@ Collect(loads, PipelineRoots)
    /\ nextLoad' = nextLoad + 1

\* fetchFavicon(url) up to its first await.
FetchFavicon(caller, url) ==
    LET n == NormalizeUrl(url)
        u == ParseUrl(n)
        f == [FavIdle EXCEPT !.caller = caller, !.url = url, !.normalized = n]
    IN  IF ~u.ok
        THEN /\ fav' = OnUrlError(f)
             /\ UNCHANGED <<loads, nextLoad>>
        ELSE StartProbe([f EXCEPT !.sources = FaviconSources(u)], 1)

\* A call of fetchFavicon from outside the LogoManager.
FavCall(url) ==
    /\ fav.state = "idle"
    /\ ~lm.isLoading
    /\ FetchFavicon("api", url)
    /\ UNCHANGED <<lm, selectedLogo>>

\* The loop body after the await: return the result, or go to the next
\* candidate, or return null after the last.
FavResume ==
    /\ fav.state = "probing"
    /\ ProbeSettled(loads[fav.load])
    /\ LET result == loads[fav.load].value IN
       IF result # None
       THEN /\ fav' = [fav EXCEPT !.state = "done", !.result = result]
            /\ UNCHANGED <<loads, nextLoad>>
       ELSE IF fav.i < Len(fav.sources)
            THEN StartProbe(fav, NextIndex(fav.i))
            ELSE /\ fav' = [fav EXCEPT !.state = "done", !.result = None]
                 /\ UNCHANGED <<loads, nextLoad>>
    /\ UNCHANGED <<lm, selectedLogo>>

\* ---------------------------------------------------------------- LogoManager

StatusResetMs == 3000

LmInit ==
    [isLoading |-> FALSE, fetchStatus |-> "idle", customLogos |-> <<>>,
     awaiting |-> FALSE, url |-> <<>>, resets |-> <<>>]

NoLogo == [tag |-> "nologo"]

\* handleFetchFavicon up to its await.  The button is disabled while a fetch
\* is loading and for a URL shorter than three characters.
HandleFetchFavicon(urlValue) ==
    /\ ~lm.isLoading
    /\ fav.state = "idle"
    /\ Len(urlValue) >= 3
    /\ lm' = [lm EXCEPT !.fetchStatus = "loading", !.isLoading = TRUE,
                        !.awaiting = TRUE, !.url = NormalizeUrl(urlValue)]
    /\ FetchFavicon("LogoManager", NormalizeUrl(urlValue))
    /\ UNCHANGED selectedLogo

\* The logo handleFetchFavicon builds from a fetched favicon.
FaviconLogo(url, data) ==
    [tag |-> "logo", id |-> "favicon", name |-> ParseUrl(url).hostname,
     type |-> "auto", data |-> data, source |-> url]

\* handleFetchFavicon after the await, its finally block included.
HandleFetchFaviconDone ==
    /\ lm.awaiting
    /\ fav.state = "done"
    /\ fav.caller = "LogoManager"
    /\ LET newLogo == FaviconLogo(lm.url, fav.result)
           fin == [lm EXCEPT !.isLoading = FALSE, !.awaiting = FALSE,
                             !.resets = Append(@, StatusResetMs)]
       IN  IF fav.result # None
           THEN /\ lm' = [fin EXCEPT !.customLogos = <<newLogo>> \o @,
                                     !.fetchStatus = "success"]
                /\ selectedLogo' = newLogo
           ELSE /\ lm' = [fin EXCEPT !.fetchStatus = "error"]
                /\ UNCHANGED selectedLogo
    /\ UNCHANGED <<loads, nextLoad, fav>>

\* The timer armed in the finally block fires.
ResetFetchStatus ==
    /\ lm.resets # <<>>
    /\ Head(lm.resets) = 0
    /\ lm' = [lm EXCEPT !.fetchStatus = "idle", !.resets = Tail(@)]
    /\ UNCHANGED <<loads, nextLoad, fav, selectedLogo>>

\* fetchFavicon has returned and handleFetchFavicon has run to its end: the
\* call is over, and the button, enabled again by setIsLoading(false), can
\* start the next one.
FetchFaviconReturn ==
    /\ fav.state = "done"
    /\ ~lm.awaiting
    /\ ~lm.isLoading
    /\ nextLoad <= MaxLoads
    /\ Len(lm.resets) < MaxLoads
    /\ fav' = FavIdle
    /\ UNCHANGED <<loads, nextLoad, lm, selectedLogo>>

\* ------------------------------------------------------------ raster pipeline

DefaultQRSize == 800
QRMargin == 2
GridDimension == 37
PreviewSize == 400
HQSize == 1024
DebounceMs == 250
VerifyMs == 500
StatusIdleMs == 3000
BatchPauseMs == 50
LogoWarnPercent == 20
HistoryKeep == 19

\* The logo size slider: min={10} max={25}; the border width slider:
\* min={5} max={50}.
MinLogoPercent == 10
MaxLogoPercent == 25
MinBorderPx == 5
MaxBorderPx == 50

\* The number of async pipeline calls in one behaviour.
MaxRuns == 2

\* A canvas is its dimensions and the drawing calls made on it since it was
\* sized: two canvases with the same record hold the same pixels.
Blank(w, h) == [width |-> w, height |-> h, ops |-> <<>>]

\* canvas.toDataURL(mime): a lossless picture of the canvas.
DataUrl(c, mime) == [tag |-> "dataurl", mime |-> mime, of |-> c]

\* A frame is the part of the state one pipeline call works on.
FrameOf(cur, trace) ==
    [heap |-> heap, next |-> nextCanvas, cur |-> cur, trace |-> trace,
     threw |-> FALSE]

\* document.createElement('canvas') followed by the width/height assignment.
CreateCanvas(F, w, h) ==
    [F EXCEPT !.heap = (F.next :> Blank(w, h)) @@ F.heap, !.next = F.next + 1]

Draw(F, id, op) == [F EXCEPT !.heap[id].ops = Append(@, op)]

Mark(F, ev) == [F EXCEPT !.trace = Append(@, ev)]

\* getQualitySize
QualitySize(quality) ==
    CASE quality = "standard" -> 512
      [] quality = "high" -> 1024
      [] quality = "ultra" -> 2048
      [] quality = "4k" -> 4096
      [] OTHER -> 1024

\* QRCode.toCanvas rejects content that exceeds the capacity of a symbol.
Encodable(content) == content # "toolong"

\* generateQRCanvas up to its await.
GenerateQRCanvasBegin(F, size) ==
    [Mark(CreateCanvas(F, size, size), "encode") EXCEPT !.cur = F.next]

\* generateQRCanvas after its await.
GenerateQRCanvasEnd(F, content, fg, bg) ==
    IF Encodable(content)
    THEN Mark(Draw(F, F.cur, [op |-> "qr", content |-> content, width |-> F.heap[F.cur].width,
                              margin |-> QRMargin, dark |-> fg, light |-> bg,
                              errorCorrectionLevel |-> "H"]), "encoded")
    ELSE [F EXCEPT !.threw = TRUE]

\* applyDesignStyle drawing the modules onto the canvas it was given.
ApplyDesignStyleInPlace(F, style, fg, bg) ==
    LET src == F.heap[F.cur]
        fill == [op |-> "fillRect", color |-> bg, x |-> 0, y |-> 0,
                 w |-> src.width, h |-> src.height]
        modules == [op |-> "modules", style |-> style, color |-> fg,
                    moduleSize |-> src.width \div GridDimension, of |-> src]
    IN  IF style = "square"
        THEN Mark(Mark(F, "style"), "styled")
        ELSE Mark(Draw(Draw(Mark(F, "style"), F.cur, fill), F.cur, modules), "styled")

\* applyDesignStyle
ApplyDesignStyle(F, style, fg, bg) ==
    LET src == F.heap[F.cur]
        id == F.next
        G == CreateCanvas(Mark(F, "style"), src.width, src.height)
        fill == [op |-> "fillRect", color |-> bg, x |-> 0, y |-> 0,
                 w |-> src.width, h |-> src.height]
        modules == [op |-> "modules", style |-> style, color |-> fg,
                    moduleSize |-> src.width \div GridDimension, of |-> src]
    IN  IF style = "square"
        THEN Mark(Mark(F, "style"), "styled")
        ELSE Mark([Draw(Draw(G, id, fill), id, modules) EXCEPT !.cur = id], "styled")

\* addLogoToCanvas after its await, with the pad drawn before the load result
\* is looked at.
AddLogoToCanvasEndPadFirst(F, img, o) ==
    LET pad == [op |-> "pad", shape |-> o.shape, layout |-> o.layout,
                size |-> o.size, color |-> o.bgColor]
        logo == [op |-> "logo", img |-> img, shape |-> o.shape,
                 layout |-> o.layout, size |-> o.size]
    IN  IF img = None
        THEN Mark(Draw(F, F.cur, pad), "logoed")
        ELSE Mark(Draw(Draw(F, F.cur, pad), F.cur, logo), "logoed")

\* addLogoToCanvas after its await, with a failed load raised to the caller.
AddLogoToCanvasEndThrows(F, img, o) ==
    LET pad == [op |-> "pad", shape |-> o.shape, layout |-> o.layout,
                size |-> o.size, color |-> o.bgColor]
        logo == [op |-> "logo", img |-> img, shape |-> o.shape,
                 layout |-> o.layout, size |-> o.size]
    IN  IF img = None
        THEN [F EXCEPT !.threw = TRUE]
        ELSE Mark(Draw(Draw(F, F.cur, pad), F.cur, logo), "logoed")

\* addLogoToCanvas after its await: nothing is drawn when the load gave no
\* image; otherwise the pad and the clipped logo are drawn on the same canvas.
AddLogoToCanvasEnd(F, img, o) ==
    LET pad == [op |-> "pad", shape |-> o.shape, layout |-> o.layout,
                size |-> o.size, color |-> o.bgColor]
        logo == [op |-> "logo", img |-> img, shape |-> o.shape,
                 layout |-> o.layout, size |-> o.size]
    IN  IF img = None
        THEN Mark(F, "logoed")
        ELSE Mark(Draw(Draw(F, F.cur, pad), F.cur, logo), "logoed")

\* addBorderToCanvas with the border added to the width alone.
AddBorderToCanvasWidthOnly(F, borderWidth, borderColor) ==
    LET src == F.heap[F.cur]
        id == F.next
        totalBorder == borderWidth * 2
        G == CreateCanvas(Mark(F, "border"), src.width + totalBorder, src.height)
        fill == [op |-> "fillRect", color |-> borderColor, x |-> 0, y |-> 0,
                 w |-> src.width + totalBorder, h |-> src.height]
        inner == [op |-> "drawImage", of |-> src, x |-> borderWidth,
                  y |-> borderWidth]
    IN  Mark([Draw(Draw(G, id, fill), id, inner) EXCEPT !.cur = id], "bordered")

\* addBorderToCanvas
AddBorderToCanvas(F, borderWidth, borderColor) ==
    LET src == F.heap[F.cur]
        id == F.next
        totalBorder == borderWidth * 2
        G == CreateCanvas(Mark(F, "border"), src.width + totalBorder,
                          src.height + totalBorder)
        fill == [op |-> "fillRect", color |-> borderColor, x |-> 0, y |-> 0,
                 w |-> src.width + totalBorder, h |-> src.height + totalBorder]
        inner == [op |-> "drawImage", of |-> src, x |-> borderWidth,
                  y |-> borderWidth]
    IN  Mark([Draw(Draw(G, id, fill), id, inner) EXCEPT !.cur = id], "bordered")

\* The two conditions every caller puts before the logo and the border stage.
NeedsLogo(job) == job.enableLogo /\ job.logo # NoLogo

NeedsBorderAlways(job) == TRUE

NeedsBorder(job) == job.enableBorder

LogoOptions(job) ==
    [shape |-> job.logoShape, layout |-> job.logoLayout, size |-> job.logoSize,
     bgColor |-> job.bg]

\* The callers' code after the logo stage: the border stage.
AfterLogo(F, job) ==
    IF NeedsBorder(job)
    THEN AddBorderToCanvas(F, job.borderWidth, job.borderColor)
    ELSE F

\* ------------------------------------------------------------------- callers

\* The content generateQRContent builds from the form: empty when the form is
\* empty, beyond the capacity of a symbol when the text is too long.
Contents == {"", "ok", "toolong"}

\* isContentValid
IsContentValid(content) == content # ""

EffectiveFg(p) == IF p.customColors THEN p.fgColor ELSE "#000000"
EffectiveBg(p) == IF p.customColors THEN p.bgColor ELSE "#ffffff"

\* The arguments one caller passes down the pipeline, fixed when it starts.
JobOf(p, logo, content, size, borderWidth) ==
    [content |-> content, size |-> size, fg |-> EffectiveFg(p),
     bg |-> EffectiveBg(p), style |-> p.designStyle,
     enableLogo |-> p.enableLogo, logo |-> logo, logoShape |-> p.logoShape,
     logoLayout |-> p.logoLayout, logoSize |-> p.logoSize,
     enableBorder |-> p.enableBorder, borderWidth |-> borderWidth,
     borderColor |-> p.borderColor]

\* Index's design state after construction.
DefaultProps ==
    [designStyle |-> "square", customColors |-> FALSE, fgColor |-> "#000000",
     bgColor |-> "#ffffff", enableLogo |-> FALSE, logoShape |-> "circle",
     logoLayout |-> "center", logoSize |-> 15, enableBorder |-> FALSE,
     borderWidth |-> 20, borderColor |-> "#000000"]

PresetLogo ==
    [tag |-> "logo", id |-> "preset", name |-> "preset", type |-> "preset",
     data |-> "data", source |-> "preset"]

AppInit ==
    [props |-> DefaultProps, content |-> "",
     isGenerating |-> FALSE, hasQR |-> FALSE, status |-> "idle",
     statusResets |-> <<>>, previewContent |-> "", generatedCanvas |-> 0,
     qrDataUrl |-> None, display |-> Blank(0, 0), history |-> <<>>,
     downloads |-> <<>>,
     lp |-> [mounted |-> FALSE, isGenerating |-> FALSE, hasQR |-> FALSE,
             display |-> Blank(0, 0)],
     modal |-> [isOpen |-> FALSE, canvasRef |-> 0, qrDataUrl |-> None],
     batch |-> [items |-> <<>>, logo |-> NoLogo, isGenerating |-> FALSE,
                progress |-> [done |-> 0, of |-> 1]]]

Run(caller, pc, job, cur, trace, wait, item) ==
    [caller |-> caller, pc |-> pc, job |-> job, cur |-> cur, load |-> 0,
     trace |-> trace, wait |-> wait, item |-> item, logoFailed |-> FALSE,
     logoIn |-> None, logoOut |-> None, outcome |-> "running"]

\* The canvas a stage was given or gave back: which one, and what is on it.
Snapshot(F) ==
    IF F.threw THEN [tag |-> "raised"]
    ELSE [tag |-> "canvas", id |-> F.cur, canvas |-> F.heap[F.cur]]

RunIds == 1..Len(runs)

\* The visible canvas after it is resized and the result is drawn on it.
ShowOn(c) ==
    [width |-> c.width, height |-> c.height,
     ops |-> <<[op |-> "drawImage", of |-> c, x |-> 0, y |-> 0]>>]

\* updatedItems[i] = {...item, status, dataUrl} followed by setItems: the
\* statuses the loop has given the item are kept in the order given.
BatchItemSet(a, i, status, dataUrl) ==
    [a EXCEPT !.batch.items[i].status = status,
              !.batch.items[i].dataUrl = dataUrl,
              !.batch.items[i].given = Append(@, status)]

\* What each caller does with the finished canvas, up to its next await.
Deliver(a, r, c, id) ==
    CASE r.caller = "generateQR" ->
            [app |-> [a EXCEPT !.generatedCanvas = id,
                               !.qrDataUrl = DataUrl(c, "image/png"),
                               !.display = ShowOn(c), !.hasQR = TRUE],
             pc |-> "verify", wait |-> VerifyMs]
      [] r.caller = "handleDownload" ->
            [app |-> [a EXCEPT !.downloads = Append(@, DataUrl(c, "image/png"))],
             pc |-> "done", wait |-> 0]
      [] r.caller = "LivePreview" ->
            [app |-> [a EXCEPT !.lp.display = ShowOn(c), !.lp.hasQR = TRUE,
                               !.lp.isGenerating = FALSE,
                               !.generatedCanvas = id,
                               !.qrDataUrl = DataUrl(c, "image/png"),
                               !.hasQR = TRUE],
             pc |-> "done", wait |-> 0]
      [] r.caller = "generateBatch" ->
            [app |-> [BatchItemSet(a, r.item, "done", DataUrl(c, "image/png"))
                        EXCEPT !.batch.progress =
                                  [done |-> r.item, of |-> Len(a.batch.items)]],
             pc |-> "pause", wait |-> BatchPauseMs]
      [] r.caller = "generateHQPreview" ->
            [app |-> [a EXCEPT !.modal.canvasRef = id,
                               !.modal.qrDataUrl = DataUrl(c, "image/png")],
             pc |-> "done", wait |-> 0]

\* The catch block of each caller, with its finally block.
Fail(a, r) ==
    CASE r.caller = "generateQR" ->
            [app |-> [a EXCEPT !.status = "error", !.isGenerating = FALSE],
             pc |-> "failed", wait |-> 0]
      [] r.caller = "handleDownload" ->
            [app |-> a, pc |-> "failed", wait |-> 0]
      [] r.caller = "LivePreview" ->
            [app |-> [a EXCEPT !.lp.hasQR = FALSE, !.lp.isGenerating = FALSE,
                               !.generatedCanvas = 0],
             pc |-> "failed", wait |-> 0]
      [] r.caller = "generateBatch" ->
            [app |-> [BatchItemSet(a, r.item, "error", a.batch.items[r.item].dataUrl)
                        EXCEPT !.batch.progress =
                                  [done |-> r.item, of |-> Len(a.batch.items)]],
             pc |-> "pause", wait |-> BatchPauseMs]
      [] r.caller = "generateHQPreview" ->
            [app |-> a, pc |-> "failed", wait |-> 0]

\* Run k leaves the pipeline with frame F: the caller's code up to its next
\* await, or its catch block when a stage threw.
Complete(k, F) ==
    LET r == runs[k]
        out == IF F.threw THEN Fail(app, r)
               ELSE Deliver(app, r, F.heap[F.cur], F.cur)
    IN  /\ app' = out.app
        /\ heap' = F.heap
        /\ nextCanvas' = F.next
        /\ runs' = [runs EXCEPT ![k] =
                       [r EXCEPT !.pc = out.pc, !.wait = out.wait,
                                 !.cur = F.cur, !.trace = F.trace,
                                 !.outcome = IF F.threw THEN "failed"
                                             ELSE "delivered"]]

\* The continuation of `await generateQRCanvas(...)`: the style stage, then
\* the logo stage up to its await on loadImage, or the border stage.
EncodeDone(k) ==
    /\ k \in RunIds
    /\ runs[k].pc = "encode"
    /\ LET r == runs[k]
           job == r.job
           F1 == GenerateQRCanvasEnd(FrameOf(r.cur, r.trace), job.content,
                                     job.fg, job.bg)
           F2 == ApplyDesignStyle(F1, job.style, job.fg, job.bg)
       IN  IF F1.threw
           THEN Complete(k, F1) /\ UNCHANGED loadVars
           ELSE IF NeedsLogo(job)
           THEN /\ loads' = (nextLoad :> NewLoad("loadImage", "pipeline", job.logo.data))
                                @@ Collect(loads, Roots)
                /\ nextLoad' = nextLoad + 1
                /\ heap' = F2.heap
                /\ nextCanvas' = F2.next
                /\ runs' = [runs EXCEPT ![k] =
                               [r EXCEPT !.pc = "logo", !.load = nextLoad,
                                         !.cur = F2.cur,
                                         !.logoIn = Snapshot(F2),
                                         !.trace = Append(F2.trace, "logo")]]
                /\ UNCHANGED app
           ELSE Complete(k, AfterLogo(F2, job)) /\ UNCHANGED loadVars
    /\ UNCHANGED <<favVars, rasterVars>>

\* The continuation of `await loadImage(logo.data)` inside addLogoToCanvas,
\* and of `await addLogoToCanvas(...)` in the caller.
LogoDone(k) ==
    /\ k \in RunIds
    /\ runs[k].pc = "logo"
    /\ loads[runs[k].load].state = "fulfilled"
    /\ LET r == runs[k]
           img == loads[r.load].value
           F1 == AddLogoToCanvasEnd(FrameOf(r.cur, r.trace), img, LogoOptions(r.job))
           G == IF F1.threw THEN F1 ELSE AfterLogo(F1, r.job)
           out == IF G.threw THEN Fail(app, r)
                  ELSE Deliver(app, r, G.heap[G.cur], G.cur)
       IN  /\ app' = out.app
           /\ heap' = G.heap
           /\ nextCanvas' = G.next
           /\ runs' = [runs EXCEPT ![k] =
                          [r EXCEPT !.pc = out.pc, !.wait = out.wait,
                                    !.cur = G.cur, !.trace = G.trace,
                                    !.logoFailed = (img = None),
                                    !.logoOut = Snapshot(F1),
                                    !.outcome = IF G.threw THEN "failed"
                                                ELSE "delivered"]]
           /\ loads' = Collect(loads, Roots \ {r.load})
    /\ UNCHANGED <<nextLoad, favVars, rasterVars>>

\* A caller enters the pipeline as a new async call.
Begin(caller, job, a) ==
    /\ Len(runs) < MaxRuns
    /\ LET F == GenerateQRCanvasBegin(FrameOf(0, <<>>), job.size) IN
       /\ heap' = F.heap
       /\ nextCanvas' = F.next
       /\ runs' = Append(runs, Run(caller, "encode", job, F.cur, F.trace, 0, 0))
    /\ app' = a

\* generateQR up to its first await.  The Generate button is disabled while
\* a generation runs and while the content is not valid.
GenerateQR ==
    /\ ~app.isGenerating
    /\ IsContentValid(app.content)
    /\ Begin("generateQR",
             JobOf(app.props, selectedLogo, app.content, DefaultQRSize,
                   app.props.borderWidth),
             [app EXCEPT !.isGenerating = TRUE, !.status = "verifying",
                         !.previewContent = app.content])
    /\ UNCHANGED <<loadVars, favVars, rasterVars>>

\* The updater of addToHistory keeping twenty of the earlier items.
HistoryWithTwenty(prev, item) ==
    <<item>> \o SubSeq(prev, 1, Min2(Len(prev), HistoryKeep + 1))

\* The updater of addToHistory: (prev) => [item, ...prev.slice(0, 19)].
HistoryWith(prev, item) ==
    <<item>> \o SubSeq(prev, 1, Min2(Len(prev), HistoryKeep))

\* localStorage.setItem('qrHistory', JSON.stringify(history.slice(0, 20))):
\* the effect that runs after every change of the history.
HistoryLimit == 20

SaveHistory(history) == SubSeq(history, 1, Min2(Len(history), HistoryLimit))

\* The history panel on its own: the number of calls of addToHistory so far,
\* the items added since the list was last cleared, oldest first, and what
\* localStorage holds under 'qrHistory'.
HistoryCall == [pc |-> "history", adds |-> 0, log |-> <<>>, stored |-> None]

\* The number of calls of addToHistory in one behaviour.
MaxAdds == 22

\* addToHistory(content, dataUrl), followed by the effect that saves the list.
\* The id of an item is the time of the call, here its number.
AddToHistory(content, dataUrl) ==
    /\ raster.pc = "history"
    /\ raster.adds < MaxAdds
    /\ LET item == [id |-> raster.adds + 1, content |-> content,
                    dataUrl |-> dataUrl, design |-> app.props.designStyle,
                    hasBorder |-> app.props.enableBorder]
           next == HistoryWith(app.history, item)
       IN  /\ app' = [app EXCEPT !.history = next]
           /\ raster' = [raster EXCEPT !.adds = @ + 1, !.log = Append(@, item),
                                       !.stored = SaveHistory(next)]
    /\ UNCHANGED <<loadVars, favVars, runs, heap, nextCanvas>>

\* clearHistory: setHistory([]), localStorage.removeItem, and the effect that
\* saves the new, empty list.
ClearHistory ==
    /\ raster.pc = "history"
    /\ app' = [app EXCEPT !.history = <<>>]
    /\ raster' = [raster EXCEPT !.log = <<>>, !.stored = SaveHistory(<<>>)]
    /\ UNCHANGED <<loadVars, favVars, runs, heap, nextCanvas>>

\* verifyQR after its wait, then the rest of generateQR.
VerifyDone(k) ==
    /\ k \in RunIds
    /\ runs[k].pc = "verify"
    /\ runs[k].wait = 0
    /\ LET job == runs[k].job
           c == heap[runs[k].cur]
           item == [content |-> job.content, dataUrl |-> DataUrl(c, "image/png"),
                    design |-> job.style, hasBorder |-> job.enableBorder]
           verified == IF job.enableLogo /\ job.logoSize > LogoWarnPercent
                       THEN [app EXCEPT !.status = "warning"]
                       ELSE [app EXCEPT !.status = "verified",
                                        !.statusResets = Append(@, StatusIdleMs)]
       IN  app' = [verified EXCEPT
                      !.history = HistoryWith(@, item),
                      !.isGenerating = FALSE]
    /\ runs' = [runs EXCEPT ![k].pc = "done"]
    /\ UNCHANGED <<heap, nextCanvas, loadVars, favVars, rasterVars>>

\* The timer verifyQR arms after a verified result.
StatusIdle ==
    /\ app.statusResets # <<>>
    /\ Head(app.statusResets) = 0
    /\ app' = [app EXCEPT !.status = "idle", !.statusResets = Tail(@)]
    /\ UNCHANGED <<runs, heap, nextCanvas, loadVars, favVars, rasterVars>>

\* handleDownload up to its first await.
HandleDownload(quality) ==
    /\ app.previewContent # ""
    /\ Begin("handleDownload",
             JobOf(app.props, selectedLogo, app.previewContent,
                   QualitySize(quality), app.props.borderWidth),
             app)
    /\ UNCHANGED <<loadVars, favVars, rasterVars>>

\* The effect of LivePreview, run when the component is mounted.
LivePreviewEffect ==
    /\ ~app.lp.mounted
    /\ IF IsContentValid(app.content)
       THEN /\ Len(runs) < MaxRuns
            /\ runs' = Append(runs,
                   Run("LivePreview", "debounce",
                       JobOf(app.props, selectedLogo, app.content, PreviewSize,
                             app.props.borderWidth \div 2),
                       0, <<>>, DebounceMs, 0))
            /\ app' = [app EXCEPT !.lp.mounted = TRUE]
       ELSE /\ app' = [app EXCEPT !.lp.mounted = TRUE, !.lp.hasQR = FALSE,
                                  !.generatedCanvas = 0]
            /\ UNCHANGED runs
    /\ UNCHANGED <<heap, nextCanvas, loadVars, favVars, rasterVars>>

\* The debounce timer of LivePreview fires: its callback up to the first await.
LivePreviewFire(k) ==
    /\ k \in RunIds
    /\ runs[k].pc = "debounce"
    /\ runs[k].wait = 0
    /\ LET F == GenerateQRCanvasBegin(FrameOf(0, <<>>), runs[k].job.size) IN
       /\ heap' = F.heap
       /\ nextCanvas' = F.next
       /\ runs' = [runs EXCEPT ![k].pc = "encode", ![k].cur = F.cur,
                               ![k].trace = F.trace]
    /\ app' = [app EXCEPT !.lp.isGenerating = TRUE]
    /\ UNCHANGED <<loadVars, favVars, rasterVars>>

\* A prop the effect of LivePreview depends on changes while the component
\* is mounted: the cleanup of the effect clears the debounce timer that is
\* still pending, and the effect runs again with the new props.  A callback
\* that has already started is not touched.  (A change is a task: it waits
\* for the continuations that are ready.)
LivePreviewChange(p) ==
    /\ app.lp.mounted
    /\ p # app.props
    /\ \A k \in RunIds : runs[k].pc # "encode"
    /\ LET pending == {k \in RunIds : runs[k].caller = "LivePreview"
                                        /\ runs[k].pc = "debounce"}
           run == Run("LivePreview", "debounce",
                      JobOf(p, selectedLogo, app.content, PreviewSize,
                            p.borderWidth \div 2),
                      0, <<>>, DebounceMs, 0)
       IN  IF IsContentValid(app.content)
           THEN /\ app' = [app EXCEPT !.props = p]
                /\ IF pending # {}
                   THEN runs' = [k \in RunIds |-> IF k \in pending THEN run ELSE runs[k]]
                   ELSE Len(runs) < MaxRuns /\ runs' = Append(runs, run)
           ELSE /\ app' = [app EXCEPT !.props = p, !.lp.hasQR = FALSE,
                                      !.generatedCanvas = 0]
                /\ runs' = [k \in RunIds |->
                               IF k \in pending THEN [runs[k] EXCEPT !.pc = "cancelled"]
                               ELSE runs[k]]
    /\ UNCHANGED <<heap, nextCanvas, loadVars, favVars, rasterVars>>

\* generateHQPreview up to its first await, run when the modal opens.
GenerateHQPreview(content) ==
    /\ ~app.modal.isOpen
    /\ content # ""
    /\ Begin("generateHQPreview",
             JobOf(app.props, selectedLogo, content, HQSize,
                   app.props.borderWidth),
             [app EXCEPT !.modal.isOpen = TRUE])
    /\ UNCHANGED <<loadVars, favVars, rasterVars>>

\* One turn of the loop with the catch block raising the error again: the
\* loop is left at the item that failed.
BatchItemRethrow(a, r, i) ==
    LET a1 == [a EXCEPT !.batch.items[i].status = "generating",
                        !.batch.items[i].given = Append(@, "generating")]
        content == a.batch.items[i].content
        F == GenerateQRCanvasBegin(FrameOf(0, <<>>), r.job.size)
        ri == [r EXCEPT !.item = i, !.load = 0, !.logoFailed = FALSE,
                        !.logoIn = None, !.logoOut = None,
                        !.outcome = "running", !.job.content = content]
    IN  IF content = ""
        THEN LET out == Fail(a1, ri) IN
             [app |-> out.app, heap |-> heap, next |-> nextCanvas,
              run |-> [ri EXCEPT !.pc = "failed", !.wait = 0,
                                 !.cur = 0, !.trace = <<>>,
                                 !.outcome = "failed"]]
        ELSE [app |-> a1, heap |-> F.heap, next |-> F.next,
              run |-> [ri EXCEPT !.pc = "encode", !.cur = F.cur,
                                 !.trace = F.trace]]

\* One turn of the loop of generateBatch, for item i of run r, up to its await.
BatchItem(a, r, i) ==
    LET a1 == [a EXCEPT !.batch.items[i].status = "generating",
                        !.batch.items[i].given = Append(@, "generating")]
        content == a.batch.items[i].content
        F == GenerateQRCanvasBegin(FrameOf(0, <<>>), r.job.size)
        ri == [r EXCEPT !.item = i, !.load = 0, !.logoFailed = FALSE,
                        !.logoIn = None, !.logoOut = None,
                        !.outcome = "running", !.job.content = content]
    IN  IF content = ""
        THEN LET out == Fail(a1, ri) IN
             [app |-> out.app, heap |-> heap, next |-> nextCanvas,
              run |-> [ri EXCEPT !.pc = out.pc, !.wait = out.wait,
                                 !.cur = 0, !.trace = <<>>,
                                 !.outcome = "failed"]]
        ELSE [app |-> a1, heap |-> F.heap, next |-> F.next,
              run |-> [ri EXCEPT !.pc = "encode", !.cur = F.cur,
                                 !.trace = F.trace]]

\* generateBatch up to its first await.
GenerateBatch(quality) ==
    /\ ~app.batch.isGenerating
    /\ Len(app.batch.items) > 0
    /\ Len(runs) < MaxRuns
    /\ LET a == [app EXCEPT !.batch.isGenerating = TRUE,
                            !.batch.progress = [done |-> 0, of |-> 1]]
           r == Run("generateBatch", "encode",
                    JobOf(app.props, app.batch.logo, "", QualitySize(quality),
                          app.props.borderWidth),
                    0, <<>>, 0, 1)
           out == BatchItem(a, r, 1)
       IN  /\ app' = out.app
           /\ heap' = out.heap
           /\ nextCanvas' = out.next
           /\ runs' = Append(runs, out.run)
    /\ UNCHANGED <<loadVars, favVars, rasterVars>>

\* The pause after an item is over: the next item, or the end of the batch.
BatchNext(k) ==
    /\ k \in RunIds
    /\ runs[k].pc = "pause"
    /\ runs[k].wait = 0
    /\ IF runs[k].item < Len(app.batch.items)
       THEN LET out == BatchItem(app, runs[k], runs[k].item + 1) IN
            /\ app' = out.app
            /\ heap' = out.heap
            /\ nextCanvas' = out.next
            /\ runs' = [runs EXCEPT ![k] = out.run]
       ELSE /\ app' = [app EXCEPT !.batch.isGenerating = FALSE]
            /\ runs' = [runs EXCEPT ![k].pc = "done"]
            /\ UNCHANGED <<heap, nextCanvas>>
    /\ UNCHANGED <<loadVars, favVars, rasterVars>>

\* ----------------------------------------------------------------------- time

\* The positions at which a call waits for a timer.
Waiting == {"debounce", "verify", "pause"}

\* The time left on every armed timer.
Armed == {i \in LoadIds : loads[i].timer = "armed"}

TimeLeft ==
    {TimeoutOf(loads[i].kind) - loads[i].elapsed : i \in Armed}
        \cup {lm.resets[k] : k \in 1..Len(lm.resets)}
        \cup {app.statusResets[k] : k \in 1..Len(app.statusResets)}
        \cup {runs[k].wait : k \in {j \in RunIds : runs[j].pc \in Waiting}}

SetMin(S) == CHOOSE m \in S : \A x \in S : m <= x

\* A continuation that is ready runs before anything else (microtasks).
ContinuationReady ==
    \/ fav.state = "probing" /\ ProbeSettled(loads[fav.load])
    \/ lm.awaiting /\ fav.state = "done"
    \/ \E k \in RunIds : runs[k].pc = "encode"
    \/ \E k \in RunIds : runs[k].pc = "logo" /\ loads[runs[k].load].state = "fulfilled"

\* The error event of a request abandoned by src = '' is a task queued at
\* once: it runs before any timer that is not yet due.
TaskQueued == \E i \in LoadIds : loads[i].request = "empty"

\* Time passes while a timer is armed, and never past the earliest deadline:
\* a due timer fires before the clock moves on.
Tick ==
    /\ TimeLeft # {}
    /\ \A d \in TimeLeft : d > 0
    /\ ~ContinuationReady
    /\ ~TaskQueued
    /\ LET dt == Min2(TickMs, SetMin(TimeLeft)) IN
       /\ loads' = [i \in LoadIds |->
                       IF i \in Armed THEN [loads[i] EXCEPT !.elapsed = @ + dt]
                       ELSE loads[i]]
       /\ lm' = [lm EXCEPT !.resets = [k \in 1..Len(@) |-> @[k] - dt]]
       /\ fav' = [fav EXCEPT !.elapsed = IF fav.state = "probing" THEN @ + dt ELSE @]
       /\ app' = [app EXCEPT !.statusResets = [k \in 1..Len(@) |-> @[k] - dt]]
       /\ runs' = [k \in RunIds |->
                      IF runs[k].pc \in Waiting
                      THEN [runs[k] EXCEPT !.wait = @ - dt] ELSE runs[k]]
    /\ UNCHANGED <<nextLoad, selectedLogo, heap, nextCanvas, raster>>

\* ------------------------------------------------- the stages in any order
\* The exported stages applied one after another to the canvas of
\* generateQRCanvas, in any order and any number of times.  The call of a
\* stage is one step here: addLogoToCanvas is given what its load came to.
StagesCall(size) == [pc |-> "start", size |-> size, cur |-> 0, trace |-> <<>>]

\* The state after a stage that left the frame F.
AfterStage(F) ==
    /\ heap' = F.heap
    /\ nextCanvas' = F.next
    /\ raster' = [raster EXCEPT !.pc = IF raster.pc = "start" THEN "encoding" ELSE "staged",
                                !.cur = F.cur, !.trace = F.trace]
    /\ UNCHANGED <<loadVars, favVars, app, runs>>

EncodeStageBegin ==
    /\ raster.pc = "start"
    /\ AfterStage(GenerateQRCanvasBegin(FrameOf(0, <<>>), raster.size))

EncodeStageEnd ==
    /\ raster.pc = "encoding"
    /\ AfterStage(GenerateQRCanvasEnd(FrameOf(raster.cur, raster.trace), "ok",
                                      "#000000", "#ffffff"))

StyleStage(style) ==
    /\ raster.pc = "staged"
    /\ AfterStage(ApplyDesignStyle(FrameOf(raster.cur, raster.trace), style,
                                   "#000000", "#ffffff"))

LogoStage(img) ==
    /\ raster.pc = "staged"
    /\ AfterStage(AddLogoToCanvasEnd(Mark(FrameOf(raster.cur, raster.trace), "logo"), img,
                                     [shape |-> "circle", layout |-> "center",
                                      size |-> MaxLogoPercent, bgColor |-> "#ffffff"]))

BorderStage(borderWidth) ==
    /\ raster.pc = "staged"
    /\ AfterStage(AddBorderToCanvas(FrameOf(raster.cur, raster.trace), borderWidth,
                                    "#000000"))

\* ------------------------------------------------------------ pixel buffers
\* The display lists above say which drawing calls a canvas received.  What
\* follows is the same code on pixels: a buffer is a canvas with the colour
\* of each of its width * height pixels, row by row as getImageData lays
\* them out (pixel (x, y) at index y * width + x).

\* const isDark = imageData.data[pixelIndex] < 128;
DarkThreshold == 128

RGBA(r, g, b, a) == [r |-> r, g |-> g, b |-> b, a |-> a]
Black == RGBA(0, 0, 0, 255)
White == RGBA(255, 255, 255, 255)
\* Two colours on either side of the sampler's threshold: a bright and
\* transparent one whose red channel is dark, a dim and opaque one whose red
\* channel is light.
Aqua127 == RGBA(DarkThreshold - 1, 255, 255, 0)
Maroon128 == RGBA(DarkThreshold, 0, 0, 255)

Pixels(width, height) == 0..(width * height - 1)
PixelAt(buf, x, y) == buf.data[y * buf.width + x]
InBuffer(buf, x, y) == x \in 0..(buf.width - 1) /\ y \in 0..(buf.height - 1)

\* fillStyle = c; fillRect(0, 0, width, height) on a new canvas.
FilledClear(width, height, c) ==
    [width |-> width, height |-> height,
     data |-> [k \in Pixels(width, height) |-> RGBA(0, 0, 0, 0)]]
Filled(width, height, c) ==
    [width |-> width, height |-> height, data |-> [k \in Pixels(width, height) |-> c]]

\* A new canvas is transparent black.
Clear == RGBA(0, 0, 0, 0)
Smoke == RGBA(0, 0, 0, DarkThreshold)

\* A pixel is a colour or, where two colours were mixed, a blend of them.
RECURSIVE Opaque(_)
Opaque(p) == IF "blend" \in DOMAIN p THEN Opaque(p.over) ELSE p.a = 255

\* Source-over compositing, the default of fill and drawImage: an opaque
\* source replaces the pixel, a transparent one leaves it, anything goes
\* onto a clear pixel as it is.
SourceOver(src, dst) ==
    IF dst = Clear \/ Opaque(src) THEN src
    ELSE IF src = Clear \/ (("a" \in DOMAIN src) /\ src.a = 0) THEN dst
    ELSE [blend |-> src, over |-> dst]

\* The colour of a pixel a fill of colour c reaches: c composited where the
\* shape covers the whole pixel, an anti-aliased blend of c over what was
\* there where it covers a part of it.
Over(c, under, whole) ==
    IF whole THEN SourceOver(c, under)
    ELSE IF c = under /\ Opaque(c) THEN c
    ELSE [blend |-> c, over |-> under]

\* ---------------------------------------------------------- drawStyledModule
\* Lengths are exact rationals, in units of 1/Sub pixel: Sub is a common
\* denominator of the ratios 0.1, 1/2, 1/2.2, 1/4, 1/3 and 1/2.5 of the code.
\* (The code computes in doubles; their rounding error, below 2^-40 pixel at
\* these sizes, moves no edge across a pixel boundary that the exact edge
\* does not touch.)
Sub == 2 * 3 * 11 * 25

Abs(n) == IF n < 0 THEN -n ELSE n
Max2(a, b) == IF a > b THEN a ELSE b
Sq(n) == n * n
Below(a, b, strict) == IF strict THEN a < b ELSE a <= b

\* const padding = size * 0.1; const actualSize = size - padding * 2;
Padding(size) == (size * Sub) \div 10
ActualSizePlus(size) == size * Sub + 2 * Padding(size)
ActualSize(size) == size * Sub - 2 * Padding(size)

\* Every shape is centred on the centre of the cell and symmetric about both
\* axes through it, so a point is given by its distances (u, v) from the
\* centre along x and y.  strict: in the interior; otherwise: in the closure.

\* fillRect(x + padding, y + padding, actualSize, actualSize)
InRect(half, u, v, strict) == Below(u, half, strict) /\ Below(v, half, strict)

\* arc(cx, cy, radius, 0, 2 * PI)
InDisc(radius, u, v, strict) ==
    /\ u <= radius /\ v <= radius
    /\ Below(Sq(v), (radius - u) * (radius + u), strict)

\* roundRect(x + padding, y + padding, actualSize, actualSize, radius), with
\* radius <= actualSize / 2: the square less what lies beyond its four
\* corner arcs.
InRoundRect(half, radius, u, v, strict) ==
    /\ InRect(half, u, v, strict)
    /\ \/ u <= half - radius
       \/ v <= half - radius
       \/ InDisc(radius, u - (half - radius), v - (half - radius), strict)

\* The polygon through the midpoints of the inset square's sides.
InDiamond(half, u, v, strict) == Below(u + v, half, strict)

\* drawStar(ctx, cx, cy, radius, 4): the outer vertices lie on the axes at
\* distance radius, the inner ones on the diagonals at distance radius / 2,
\* that is at (a, a) with a = radius * sqrt(2) / 4.  In the octant v <= u the
\* star is bounded by the line through (radius, 0) and (a, a):
\* u + (2 * sqrt(2) - 1) * v = radius, that is 2 * sqrt(2) * v = radius - u + v.
InStar(radius, u, v, strict) ==
    LET hi == Max2(u, v)
        lo == IF u < v THEN u ELSE v
    IN  /\ hi <= radius
        /\ Below(8 * Sq(lo), Sq(radius - hi + lo), strict)

Styles == {"square", "rounded", "dots", "classy", "classy-rounded",
           "extra-rounded", "diamond", "star", "fluid"}

\* drawStar(ctx, cx, cy, radius, points): the vertices of the path, in the
\* order of the loop.  Vertex i lies at distance r from (cx, cy) at the angle
\* i * PI / points - PI / 2, kept as the fraction num / den of PI; the
\* canvas's y axis points down, so -PI / 2 is straight up.
InnerRadiusThird(radius) == radius \div 3
InnerRadius(radius) == radius \div 2
StarVertex(radius, points, i) ==
    [r |-> IF i % 2 = 0 THEN radius ELSE InnerRadius(radius),
     num |-> 2 * i - points, den |-> 2 * points]
DrawStar(cx, cy, radius, points) ==
    [kind |-> "star", cx |-> cx, cy |-> cy,
     vertices |-> [n \in 1..(points * 2) |-> StarVertex(radius, points, n - 1)]]

\* The switch of drawStyledModule: the path the call fills, for the cell of
\* the given size with origin (x, y) in pixels.  All lengths of the path are
\* in units of 1 / Sub pixel.
StyledPath(x, y, size, style) ==
    LET padding == Padding(size)
        actualSize == ActualSize(size)
        left == x * Sub
        top == y * Sub
        whole == size * Sub
        RoundRect(radius) ==
            [kind |-> "roundRect", x |-> left + padding, y |-> top + padding,
             w |-> actualSize, h |-> actualSize, radius |-> radius]
    IN  CASE style = "rounded" -> RoundRect(actualSize \div 4)
          [] style = "dots" ->
                [kind |-> "arc", cx |-> left + whole \div 2, cy |-> top + whole \div 2,
                 radius |-> (actualSize * 5) \div 11]
          [] style = "classy" ->
                [kind |-> "fillRect", x |-> left + padding, y |-> top + padding,
                 w |-> actualSize, h |-> actualSize]
          [] style = "classy-rounded" -> RoundRect(actualSize \div 3)
          [] style = "extra-rounded" -> RoundRect(actualSize \div 2)
          [] style = "diamond" ->
                [kind |-> "polygon",
                 points |-> << <<left + whole \div 2, top + padding>>,
                               <<left + whole - padding, top + whole \div 2>>,
                               <<left + whole \div 2, top + whole - padding>>,
                               <<left + padding, top + whole \div 2>> >>]
          [] style = "star" ->
                DrawStar(left + whole \div 2, top + whole \div 2, actualSize \div 2, 4)
          [] style = "fluid" -> RoundRect((actualSize * 2) \div 5)
          [] OTHER -> [kind |-> "fillRect", x |-> left, y |-> top,
                       w |-> whole, h |-> whole]

\* Is the point at (u, v) from the centre of a cell of the given size inside
\* the path drawStyledModule fills for the style?  (Every path of the switch
\* is centred on the cell's centre.)
InShape(style, size, u, v, strict) ==
    LET path == StyledPath(0, 0, size, style)
    IN  CASE path.kind = "roundRect" ->
                InRoundRect(path.w \div 2, path.radius, u, v, strict)
          [] path.kind = "arc" -> InDisc(path.radius, u, v, strict)
          [] path.kind = "fillRect" -> InRect(path.w \div 2, u, v, strict)
          [] path.kind = "polygon" ->
                InDiamond(path.points[2][1] - path.points[1][1], u, v, strict)
          [] path.kind = "star" -> InStar(path.vertices[1].r, u, v, strict)

\* The least and the greatest distance from the cell's centre line of the
\* pixel column (or row) at offset i from the cell's origin.
Near(size, i) ==
    LET lo == i * Sub - (size * Sub) \div 2
        hi == lo + Sub
    IN  IF lo > 0 THEN lo ELSE IF hi < 0 THEN -hi ELSE 0
Far(size, i) ==
    LET lo == i * Sub - (size * Sub) \div 2
    IN  Max2(Abs(lo), Abs(lo + Sub))

\* A fill changes the pixels the shape overlaps.  The shapes grow with u and
\* with v, so a pixel overlaps one when its nearest point lies inside, and is
\* covered when its farthest point does.
Touches(style, size, i, j) ==
    size > 0 /\ InShape(style, size, Near(size, i), Near(size, j), TRUE)
Covers(style, size, i, j) ==
    size > 0 /\ InShape(style, size, Far(size, i), Far(size, j), FALSE)

\* drawStyledModule(ctx, x, y, size, style) on the canvas of ctx, whose
\* fillStyle is c.
DrawStyledModule(buf, c, x, y, size, style) ==
    [buf EXCEPT !.data =
        [k \in Pixels(buf.width, buf.height) |->
            LET i == (k % buf.width) - x
                j == (k \div buf.width) - y
            IN  IF Touches(style, size, i, j)
                THEN Over(c, buf.data[k], Covers(style, size, i, j))
                ELSE buf.data[k]]]

\* One call of drawStyledModule on a canvas filled with bgColor, as
\* applyDesignStyle makes it.
ModuleCall(width, height, fgColor, bgColor, x, y, size, style) ==
    [pc |-> "module", newCanvas |-> Filled(width, height, bgColor),
     fgColor |-> fgColor, bgColor |-> bgColor,
     x |-> x, y |-> y, moduleSize |-> size, style |-> style, path |-> <<>>]

DrawModule ==
    /\ raster.pc = "module"
    /\ raster' = [raster EXCEPT
                    !.pc = "drawn",
                    !.path = StyledPath(raster.x, raster.y, raster.moduleSize, raster.style),
                    !.newCanvas = DrawStyledModule(@, raster.fgColor, raster.x, raster.y,
                                                   raster.moduleSize, raster.style)]
    /\ UNCHANGED <<loadVars, favVars, pipeVars>>

\* ------------------------------------------------------ calculateLogoPosition
\* Positions are exact rationals, in units of 1/PosUnit pixel: PosUnit is a
\* common denominator of the ratios 1/100, 0.08 and 1/2 of the code.  (The
\* code computes in doubles; for 400 and 15 they give the same numbers
\* exactly, in general numbers within 2^-40 pixel of these.)
PosUnit == 2 * 100

\* const logoSize = canvas.width * (size / 100);
LogoSizePx(width, size) == (width * size * PosUnit) \div 100

\* const margin = canvas.width * 0.08;
MarginTenth(width) == (width * 10 * PosUnit) \div 100
Margin(width) == (width * 8 * PosUnit) \div 100

Layouts == {"center", "top-left", "top-right", "bottom-left", "bottom-right",
            "watermark"}

CalculateLogoPosition(width, height, layout, logoSize) ==
    LET margin == Margin(width)
        w == width * PosUnit
        h == height * PosUnit
    IN  CASE layout = "center" ->
               [x |-> (w - logoSize) \div 2, y |-> (h - logoSize) \div 2]
          [] layout = "bottom-right" ->
               [x |-> w - logoSize - margin, y |-> h - logoSize - margin]
          [] layout = "bottom-left" ->
               [x |-> margin, y |-> h - logoSize - margin]
          [] layout = "top-right" ->
               [x |-> w - logoSize - margin, y |-> margin]
          [] layout = "top-left" ->
               [x |-> margin, y |-> margin]
          [] layout = "watermark" ->
               [x |-> (w - logoSize) \div 2, y |-> h - logoSize - margin * 2]
          [] OTHER ->
               [x |-> (w - logoSize) \div 2, y |-> (h - logoSize) \div 2]

\* Lines 275-276 of addLogoToCanvas on a canvas of the given size.
PositionCall(width, height, layout, size) ==
    [pc |-> "position", width |-> width, height |-> height, layout |-> layout,
     size |-> size, logoSize |-> 0, position |-> None]

PlaceLogo ==
    /\ raster.pc = "position"
    /\ LET logoSize == LogoSizePx(raster.width, raster.size)
       IN  raster' = [raster EXCEPT
                        !.pc = "positioned",
                        !.logoSize = logoSize,
                        !.position = CalculateLogoPosition(raster.width, raster.height,
                                                           raster.layout, logoSize)]
    /\ UNCHANGED <<loadVars, favVars, pipeVars>>

\* ------------------------------------------------- addLogoToCanvas on pixels
\* Lengths are exact rationals, in units of 1/LogoUnit pixel: LogoUnit is a
\* common denominator of the ratios of calculateLogoPosition and of the
\* ratios 0.15, 1/2 and 1/6 of addLogoToCanvas.
LogoUnit == 30 * PosUnit
Fine(n) == n * (LogoUnit \div PosUnit)

\* const padding = logoSize * 0.15;
LogoPaddingWhole(logoSize) == logoSize
LogoPadding(logoSize) == (logoSize * 15) \div 100

LogoShapes == {"square", "rounded", "circle"}

\* The three branches that draw the background padding.
PadPath(shape, position, logoSize, padding) ==
    IF shape = "circle"
    THEN [kind |-> "arc", cx |-> position.x + logoSize \div 2,
          cy |-> position.y + logoSize \div 2, radius |-> logoSize \div 2 + padding]
    ELSE IF shape = "rounded"
    THEN [kind |-> "roundRect", x |-> position.x - padding, y |-> position.y - padding,
          w |-> logoSize + padding * 2, h |-> logoSize + padding * 2,
          radius |-> logoSize \div 6]
    ELSE [kind |-> "fillRect", x |-> position.x - padding, y |-> position.y - padding,
          w |-> logoSize + padding * 2, h |-> logoSize + padding * 2]

\* The two branches that clip; the square logo is not clipped.
NoClip == [kind |-> "none"]
ClipRadiusWhole(logoSize) == logoSize
ClipRadius(logoSize) == logoSize \div 2
ClipPath(shape, position, logoSize) ==
    IF shape = "circle"
    THEN [kind |-> "arc", cx |-> position.x + logoSize \div 2,
          cy |-> position.y + logoSize \div 2, radius |-> ClipRadius(logoSize)]
    ELSE IF shape = "rounded"
    THEN [kind |-> "roundRect", x |-> position.x, y |-> position.y,
          w |-> logoSize, h |-> logoSize, radius |-> logoSize \div 6]
    ELSE NoClip

\* ctx.drawImage(logoImg, position.x, position.y, logoSize, logoSize): the
\* rectangle the image is scaled into.
ImageRect(position, logoSize) ==
    [kind |-> "fillRect", x |-> position.x, y |-> position.y,
     w |-> logoSize, h |-> logoSize]

\* The calls addLogoToCanvas makes on the context after its await, in the
\* order of the code; none when the image did not load.
LogoCallsNoRestore(width, height, img, o) ==
    LET logoSize == Fine(LogoSizePx(width, o.size))
        at == CalculateLogoPosition(width, height, o.layout, LogoSizePx(width, o.size))
        position == [x |-> Fine(at.x), y |-> Fine(at.y)]
        padding == LogoPadding(logoSize)
        clip == ClipPath(o.shape, position, logoSize)
    IN  IF img = None THEN <<>>
        ELSE << [call |-> "fillStyle", value |-> o.bgColor],
                [call |-> "fill", path |-> PadPath(o.shape, position, logoSize, padding)],
                [call |-> "save"] >>
             \o (IF clip = NoClip THEN <<>> ELSE << [call |-> "clip", path |-> clip] >>)
             \o << [call |-> "drawImage", image |-> img,
                    path |-> ImageRect(position, logoSize)] >>
LogoCalls(width, height, img, o) ==
    LET logoSize == Fine(LogoSizePx(width, o.size))
        at == CalculateLogoPosition(width, height, o.layout, LogoSizePx(width, o.size))
        position == [x |-> Fine(at.x), y |-> Fine(at.y)]
        padding == LogoPadding(logoSize)
        clip == ClipPath(o.shape, position, logoSize)
    IN  IF img = None THEN <<>>
        ELSE << [call |-> "fillStyle", value |-> o.bgColor],
                [call |-> "fill", path |-> PadPath(o.shape, position, logoSize, padding)],
                [call |-> "save"] >>
             \o (IF clip = NoClip THEN <<>> ELSE << [call |-> "clip", path |-> clip] >>)
             \o << [call |-> "drawImage", image |-> img,
                    path |-> ImageRect(position, logoSize)],
                   [call |-> "restore"] >>

\* The centre of a path and whether the point at distances (u, v) from it
\* along x and y is inside the path (the paths here are as wide as high).
CentreOf(path) ==
    IF path.kind = "arc" THEN [x |-> path.cx, y |-> path.cy]
    ELSE [x |-> path.x + path.w \div 2, y |-> path.y + path.h \div 2]
InPath(path, u, v, strict) ==
    CASE path.kind = "arc" -> InDisc(path.radius, u, v, strict)
      [] path.kind = "roundRect" -> InRoundRect(path.w \div 2, path.radius, u, v, strict)
      [] path.kind = "fillRect" -> InRect(path.w \div 2, u, v, strict)

\* The least and the greatest distance from c of the pixel column (or row) i.
NearTo(c, i) ==
    LET lo == i * LogoUnit - c
        hi == lo + LogoUnit
    IN  IF lo > 0 THEN lo ELSE IF hi < 0 THEN -hi ELSE 0
FarFrom(c, i) ==
    LET lo == i * LogoUnit - c
    IN  Max2(Abs(lo), Abs(lo + LogoUnit))

\* Does the path overlap pixel (i, j), and does it cover it?  There is
\* nothing outside a clip, and no clip at all is everywhere.
Overlaps(path, i, j) ==
    \/ path = NoClip
    \/ LET c == CentreOf(path)
       IN  InPath(path, NearTo(c.x, i), NearTo(c.y, j), TRUE)
Contains(path, i, j) ==
    \/ path = NoClip
    \/ LET c == CentreOf(path)
       IN  InPath(path, FarFrom(c.x, i), FarFrom(c.y, j), FALSE)

\* Painting the colour c into the path on a canvas whose context has the
\* given clip.
Paint(buf, clip, path, c) ==
    [buf EXCEPT !.data =
        [k \in Pixels(buf.width, buf.height) |->
            LET i == k % buf.width
                j == k \div buf.width
            IN  IF Overlaps(path, i, j) /\ Overlaps(clip, i, j)
                THEN Over(c, buf.data[k], Contains(path, i, j) /\ Contains(clip, i, j))
                ELSE buf.data[k]]]

\* The drawing state of a canvas's 2D context as far as addLogoToCanvas uses
\* it, together with the canvas: fillStyle, the clip, the stack of save().
Context2D(canvas, fillStyle) ==
    [canvas |-> canvas, fillStyle |-> fillStyle, clip |-> NoClip, saved |-> <<>>]

Call2D(st, c) ==
    CASE c.call = "fillStyle" -> [st EXCEPT !.fillStyle = c.value]
      [] c.call = "fill" ->
            [st EXCEPT !.canvas = Paint(@, st.clip, c.path, st.fillStyle)]
      [] c.call = "save" ->
            [st EXCEPT !.saved = Append(@, [fillStyle |-> st.fillStyle, clip |-> st.clip])]
      [] c.call = "clip" -> [st EXCEPT !.clip = c.path]
      [] c.call = "drawImage" ->
            [st EXCEPT !.canvas = Paint(@, st.clip, c.path, c.image.color)]
      [] c.call = "restore" ->
            IF st.saved = <<>> THEN st
            ELSE [st EXCEPT !.fillStyle = st.saved[Len(st.saved)].fillStyle,
                            !.clip = st.saved[Len(st.saved)].clip,
                            !.saved = SubSeq(@, 1, Len(@) - 1)]

RECURSIVE Calls2D(_, _)
Calls2D(st, calls) ==
    IF calls = <<>> THEN st ELSE Calls2D(Call2D(st, Head(calls)), Tail(calls))

\* A loaded logo image, of one colour all over.
Picture(c) == [tag |-> "picture", color |-> c]

\* addLogoToCanvas(canvas, logo, options) after its await, the image being
\* what loadImage gave; given is the canvas as it was passed in.
LogoCall(canvas, fillStyle, img, o) ==
    [pc |-> "logo", given |-> canvas, ctx |-> Context2D(canvas, fillStyle),
     img |-> img, options |-> o, calls |-> <<>>]

AddLogoStep ==
    /\ raster.pc = "logo"
    /\ LET calls == LogoCalls(raster.given.width, raster.given.height, raster.img,
                              raster.options)
       IN  raster' = [raster EXCEPT !.pc = "logoed",
                                    !.calls = calls,
                                    !.ctx = Calls2D(@, calls)]
    /\ UNCHANGED <<loadVars, favVars, pipeVars>>

\* ------------------------------------------------ loadFaviconImage on pixels
\* The numbers of the normalisation are exact rationals num / den in lowest
\* terms, den > 0.
\* (The code computes in doubles: its width and height lie within 2^-44
\* pixel of these, which moves no edge across a pixel boundary.)
RECURSIVE Gcd(_, _)
Gcd(a, b) == IF b = 0 THEN a ELSE Gcd(b, a % b)
Ratio(num, den) ==
    LET g == Gcd(den, IF num < 0 THEN -num ELSE num)
    IN  [num |-> num \div g, den |-> den \div g]
AtMost(a, b) == a.num * b.den <= b.num * a.den
MinRatio(a, b) == IF AtMost(a, b) THEN a ELSE b
MaxRatio(a, b) == IF AtMost(a, b) THEN b ELSE a
Times(n, a) == Ratio(n * a.num, a.den)
Whole(n) == [num |-> n, den |-> 1]
\* a + b, not in lowest terms
Plus(a, b) == [num |-> a.num * b.den + b.num * a.den, den |-> a.den * b.den]
\* (size - a) / 2
HalfRest(size, a) == Ratio(size * a.den - a.num, 2 * a.den)

\* const scale = Math.min(size / img.width, size / img.height);
FaviconScaleMax(size, img) == MaxRatio(Ratio(size, img.w), Ratio(size, img.h))
FaviconScale(size, img) == MinRatio(Ratio(size, img.w), Ratio(size, img.h))

\* The canvas the load handler of loadFaviconImage makes of an accepted
\* image, with the calls on its context in the order of the code.
FaviconCanvas(img) ==
    LET size == FaviconCanvasPx
        scale == FaviconScale(size, img)
        width == Times(img.w, scale)
        height == Times(img.h, scale)
    IN  [width |-> size, height |-> size,
         calls |-> << [call |-> "fillStyle", value |-> White],
                      [call |-> "fillRect", x |-> Whole(0), y |-> Whole(0),
                       w |-> Whole(size), h |-> Whole(size)],
                      [call |-> "drawImage", image |-> img,
                       x |-> HalfRest(size, width), y |-> HalfRest(size, height),
                       w |-> width, h |-> height] >>]

\* Does the rectangle of a call overlap pixel (i, j), and does it cover it?
RectOverlaps(c, i, j) ==
    /\ ~AtMost(Plus(c.x, c.w), Whole(i)) /\ ~AtMost(Whole(i + 1), c.x)
    /\ ~AtMost(Plus(c.y, c.h), Whole(j)) /\ ~AtMost(Whole(j + 1), c.y)
RectCovers(c, i, j) ==
    /\ AtMost(c.x, Whole(i)) /\ AtMost(Whole(i + 1), Plus(c.x, c.w))
    /\ AtMost(c.y, Whole(j)) /\ AtMost(Whole(j + 1), Plus(c.y, c.h))

\* The colour of pixel (i, j) of a canvas after the first n of its calls.  A
\* decoded image may be transparent anywhere, so what drawImage leaves is the
\* image over what was there.
RECURSIVE PixelAfter(_, _, _, _, _)
PixelAfter(calls, n, fillStyle, i, j) ==
    IF n = 0 THEN Clear
    ELSE LET c == calls[n]
             style == IF \E m \in 1..(n - 1) : calls[m].call = "fillStyle"
                      THEN calls[CHOOSE m \in 1..(n - 1) :
                                    /\ calls[m].call = "fillStyle"
                                    /\ \A k \in (m + 1)..(n - 1) : calls[k].call # "fillStyle"].value
                      ELSE fillStyle
             under == PixelAfter(calls, n - 1, fillStyle, i, j)
         IN  CASE c.call = "fillRect" /\ RectOverlaps(c, i, j) ->
                    Over(style, under, RectCovers(c, i, j))
               [] c.call = "drawImage" /\ RectOverlaps(c, i, j) ->
                    [blend |-> c.image, over |-> under]
               [] OTHER -> under

\* The load handler of loadFaviconImage for a decoded image.
FaviconCall(img) ==
    [pc |-> "favicon", img |-> img, outcome |-> None, canvas |-> None]

NormalizeStep ==
    /\ raster.pc = "favicon"
    /\ LET l == [kind |-> "loadFaviconImage", src |-> raster.img.src]
           outcome == OnloadOutcome(l, raster.img.w, raster.img.h)
       IN  raster' = [raster EXCEPT
                        !.pc = "normalized",
                        !.outcome = outcome,
                        !.canvas = IF outcome = None THEN None
                                   ELSE FaviconCanvas(raster.img)]
    /\ UNCHANGED <<loadVars, favVars, pipeVars>>

\* --------------------------------------------------------- addBorderToCanvas
\* Setting canvas.width or canvas.height to a value outside 0..2^31 - 1 sets
\* it to its default (HTML: reflected unsigned long, limited to only
\* non-negative numbers).
DefaultCanvasWidth == 300
DefaultCanvasHeight == 150
MaxCanvasDim == 2147483647
SetDimension(n, default) == IF n \in 0..MaxCanvasDim THEN n ELSE default

\* const totalBorder = borderWidth * 2;
TotalBorderOnce(borderWidth) == borderWidth
TotalBorder(borderWidth) == borderWidth * 2

\* ctx.drawImage(image, dx, dy): the image composited onto the canvas with
\* its top left corner at (dx, dy), what falls outside the canvas dropped.
DrawImage(buf, image, dx, dy) ==
    [buf EXCEPT !.data =
        [k \in Pixels(buf.width, buf.height) |->
            LET x == (k % buf.width) - dx
                y == (k \div buf.width) - dy
            IN  IF InBuffer(image, x, y)
                THEN SourceOver(PixelAt(image, x, y), buf.data[k])
                ELSE buf.data[k]]]

\* addBorderToCanvas on pixels.  drawImage throws an InvalidStateError for a
\* source canvas of zero width or height.
AddBorder(canvas, borderWidth, borderColor) ==
    LET newCanvas == Filled(SetDimension(canvas.width + TotalBorder(borderWidth),
                                         DefaultCanvasWidth),
                            SetDimension(canvas.height + TotalBorder(borderWidth),
                                         DefaultCanvasHeight),
                            borderColor)
    IN  IF canvas.width = 0 \/ canvas.height = 0
        THEN [threw |-> TRUE, canvas |-> None]
        ELSE [threw |-> FALSE,
              canvas |-> DrawImage(newCanvas, canvas, borderWidth, borderWidth)]

BorderCall(canvas, borderWidth, borderColor) ==
    [pc |-> "border", canvas |-> canvas, borderWidth |-> borderWidth,
     borderColor |-> borderColor, result |-> None]

AddBorderStep ==
    /\ raster.pc = "border"
    /\ LET out == AddBorder(raster.canvas, raster.borderWidth, raster.borderColor)
       IN  raster' = IF out.threw THEN [raster EXCEPT !.pc = "threw"]
                     ELSE [raster EXCEPT !.pc = "bordered", !.result = out.canvas]
    /\ UNCHANGED <<loadVars, favVars, pipeVars>>

\* ---------------------------------------------------------- applyDesignStyle
\* One call of applyDesignStyle on a pixel buffer, a step at a time: the
\* part before the loops, one turn of the inner loop, the end of a row, the
\* return.  drawn and redrawn are history: the origins drawStyledModule was
\* called for, and those it was called for more than once.
NoRaster == [pc |-> "none"]

RasterCall(canvas, style, fgColor, bgColor) ==
    [pc |-> "enter", canvas |-> canvas, style |-> style,
     fgColor |-> fgColor, bgColor |-> bgColor,
     newCanvas |-> None, moduleSize |-> 0, x |-> 0, y |-> 0,
     drawn |-> {}, redrawn |-> {}, result |-> None]

\* const moduleSize = Math.floor(canvas.width / 37);
ModuleSize(width) == width \div GridDimension

\* for (let x = 0; x < canvas.width; x += moduleSize)
InnerLoopBound(r) == r.x < r.canvas.width

\* const isDark = imageData.data[pixelIndex] < 128;
IsDarkAnyChannel(p) == p.r < DarkThreshold \/ p.g < DarkThreshold \/ p.b < DarkThreshold
IsDark(p) == p.r < DarkThreshold

\* if (style === 'square') return canvas;
ReturnsInputNever(style) == FALSE
ReturnsInput(style) == style = "square"

\* Lines 128-147.  getImageData throws an IndexSizeError for a source
\* rectangle of zero width or height.
ApplyDesignStyleEnter ==
    /\ raster.pc = "enter"
    /\ raster' =
         IF ReturnsInput(raster.style)
         THEN [raster EXCEPT !.pc = "done", !.result = raster.canvas]
         ELSE IF raster.canvas.width = 0 \/ raster.canvas.height = 0
         THEN [raster EXCEPT !.pc = "threw"]
         ELSE [raster EXCEPT !.pc = "loop",
                  !.newCanvas = Filled(raster.canvas.width, raster.canvas.height,
                                       raster.bgColor),
                  !.moduleSize = ModuleSize(raster.canvas.width)]
    /\ UNCHANGED <<loadVars, favVars, pipeVars>>

\* Lines 150-157: one turn of the inner loop.
SampleModule ==
    /\ raster.pc = "loop"
    /\ raster.y < raster.canvas.height
    /\ InnerLoopBound(raster)
    /\ LET r == raster
           at == <<r.x, r.y>>
           next == [r EXCEPT !.x = r.x + r.moduleSize]
       IN  raster' =
             IF IsDark(PixelAt(r.canvas, r.x, r.y))
             THEN [next EXCEPT
                      !.newCanvas = DrawStyledModule(r.newCanvas, r.fgColor, r.x, r.y,
                                                     r.moduleSize, r.style),
                      !.drawn = @ \cup {at},
                      !.redrawn = IF at \in r.drawn THEN @ \cup {at} ELSE @]
             ELSE next
    /\ UNCHANGED <<loadVars, favVars, pipeVars>>

\* Line 149: the inner loop is over, y += moduleSize.
NextRow ==
    /\ raster.pc = "loop"
    /\ raster.y < raster.canvas.height
    /\ ~InnerLoopBound(raster)
    /\ raster' = [raster EXCEPT !.x = 0, !.y = raster.y + raster.moduleSize]
    /\ UNCHANGED <<loadVars, favVars, pipeVars>>

\* Line 160: return newCanvas.
ApplyDesignStyleReturn ==
    /\ raster.pc = "loop"
    /\ raster.y >= raster.canvas.height
    /\ raster' = [raster EXCEPT !.pc = "done", !.result = raster.newCanvas]
    /\ UNCHANGED <<loadVars, favVars, pipeVars>>

\* ----------------------------------------------------------- specifications

Init ==
    /\ loads = << >>
    /\ nextLoad = 1
    /\ fav = FavIdle
    /\ lm = LmInit
    /\ selectedLogo = NoLogo
    /\ app = AppInit
    /\ runs = <<>>
    /\ heap = <<>>
    /\ nextCanvas = 1
    /\ raster = NoRaster

LoadEvents ==
    \/ \E i \in LoadIds : ImgLoad(i)
    \/ \E i \in LoadIds : ImgError(i)
    \/ \E i \in LoadIds : TimerFire(i)

\* The Image Resolver on its own, called directly.
NextLoad ==
    \/ \E k \in {"loadImage", "loadFaviconImage"}, s \in Srcs :
          CallLoad(k, s) /\ UNCHANGED <<favVars, pipeVars, rasterVars>>
    \/ LoadEvents /\ UNCHANGED <<favVars, pipeVars, rasterVars>>
    \/ Tick

SpecLoad == Init /\ [][NextLoad]_vars

\* One favicon resolution, called directly or by the LogoManager.
NextFavicon ==
    \/ \E u \in Urls : FavCall(u) /\ UNCHANGED <<pipeVars, rasterVars>>
    \/ \E u \in LmUrls : HandleFetchFavicon(u) /\ UNCHANGED <<pipeVars, rasterVars>>
    \/ FavResume /\ UNCHANGED <<pipeVars, rasterVars>>
    \/ HandleFetchFaviconDone /\ UNCHANGED <<pipeVars, rasterVars>>
    \/ ResetFetchStatus /\ UNCHANGED <<pipeVars, rasterVars>>
    \/ LoadEvents /\ UNCHANGED <<favVars, pipeVars, rasterVars>>
    \/ Tick

SpecFavicon == Init /\ [][NextFavicon]_vars

\* The design state a behaviour of the pipeline starts from.
PropsSet ==
    {[DefaultProps EXCEPT !.designStyle = sl[1], !.logoSize = sl[2],
                          !.enableLogo = el, !.enableBorder = eb] :
        sl \in {<<"square", 15>>, <<"dots", 25>>}, el \in BOOLEAN,
        eb \in BOOLEAN}

BatchItems(cs) ==
    [i \in 1..Len(cs) |->
        [content |-> cs[i], status |-> "pending", dataUrl |-> None, given |-> <<>>]]

InitPipeline ==
    /\ loads = << >>
    /\ nextLoad = 1
    /\ fav = FavIdle
    /\ lm = LmInit
    /\ selectedLogo \in {NoLogo, PresetLogo}
    /\ \E p \in PropsSet, c \in Contents :
          app = [AppInit EXCEPT !.props = p, !.content = c,
                                !.batch.items = BatchItems(<<"", c>>),
                                !.batch.logo = selectedLogo]
    /\ runs = <<>>
    /\ heap = <<>>
    /\ nextCanvas = 1
    /\ raster = NoRaster

Qualities == {"standard", "4k"}
BatchQuality == "high"

\* The five callers of the pipeline.
NextPipeline ==
    \/ GenerateQR
    \/ \E k \in RunIds : VerifyDone(k)
    \/ StatusIdle
    \/ \E q \in Qualities : HandleDownload(q)
    \/ LivePreviewEffect
    \/ \E k \in RunIds : LivePreviewFire(k)
    \/ GenerateHQPreview(app.content)
    \/ GenerateBatch(BatchQuality)
    \/ \E k \in RunIds : BatchNext(k)
    \/ \E k \in RunIds : EncodeDone(k)
    \/ \E k \in RunIds : LogoDone(k)
    \/ LoadEvents /\ UNCHANGED <<favVars, pipeVars, rasterVars>>
    \/ Tick

SpecPipeline == InitPipeline /\ [][NextPipeline]_vars

\* generateQR next to the LogoManager: the logo is enabled, and selected or
\* not, when the user starts to fetch favicons and to generate.
InitApp ==
    /\ loads = << >>
    /\ nextLoad = 1
    /\ fav = FavIdle
    /\ lm = LmInit
    /\ selectedLogo \in {NoLogo, PresetLogo}
    /\ \E p \in {q \in PropsSet : q.enableLogo /\ q.enableBorder
                                        /\ q.designStyle = "square"},
          c \in {"ok", "toolong"} :
          app = [AppInit EXCEPT !.props = p, !.content = c]
    /\ runs = <<>>
    /\ heap = <<>>
    /\ nextCanvas = 1
    /\ raster = NoRaster

AppUrls == {Str_host, <<"a", " ", "b">>}

\* The number of generateQR calls next to a favicon fetch.
MaxGenerations == 1

NextApp ==
    \/ GenerateQR /\ Len(runs) < MaxGenerations
    \/ \E k \in RunIds : EncodeDone(k)
    \/ \E k \in RunIds : LogoDone(k)
    \/ \E k \in RunIds : VerifyDone(k)
    \/ StatusIdle
    \/ \E u \in AppUrls : HandleFetchFavicon(u) /\ UNCHANGED <<pipeVars, rasterVars>>
    \/ FavResume /\ UNCHANGED <<pipeVars, rasterVars>>
    \/ HandleFetchFaviconDone /\ UNCHANGED <<pipeVars, rasterVars>>
    \/ ResetFetchStatus /\ UNCHANGED <<pipeVars, rasterVars>>
    \/ LoadEvents /\ UNCHANGED <<favVars, pipeVars, rasterVars>>
    \/ Tick

SpecApp == InitApp /\ [][NextApp]_vars

\* LivePreview on its own, its props changing while it is mounted.
InitPreview ==
    /\ loads = << >>
    /\ nextLoad = 1
    /\ fav = FavIdle
    /\ lm = LmInit
    /\ selectedLogo \in {NoLogo, PresetLogo}
    /\ \E p \in PropsSet, c \in Contents : app = [AppInit EXCEPT !.props = p, !.content = c]
    /\ runs = <<>>
    /\ heap = <<>>
    /\ nextCanvas = 1
    /\ raster = NoRaster

NextPreview ==
    \/ LivePreviewEffect
    \/ \E p \in PropsSet : LivePreviewChange(p)
    \/ \E k \in RunIds : LivePreviewFire(k)
    \/ \E k \in RunIds : EncodeDone(k)
    \/ \E k \in RunIds : LogoDone(k)
    \/ LoadEvents /\ UNCHANGED <<favVars, pipeVars, rasterVars>>
    \/ Tick

SpecPreview == InitPreview /\ [][NextPreview]_vars

\* Timers fire, time passes and continuations run; a decode may never end.
FairSpecFavicon ==
    /\ SpecFavicon
    /\ WF_vars(Tick)
    /\ WF_vars(\E i \in LoadIds : TimerFire(i) /\ UNCHANGED <<favVars, pipeVars, rasterVars>>)
    /\ WF_vars(\E i \in LoadIds : loads[i].request = "empty" /\ ImgError(i)
                                        /\ UNCHANGED <<favVars, pipeVars, rasterVars>>)
    /\ WF_vars(FavResume /\ UNCHANGED <<pipeVars, rasterVars>>)


\* ------------------------------------------------- applyDesignStyle on pixels
\* The widths of the input buffers: none, one, one below the grid dimension,
\* and the first widths of each cell size up to MaxCell.
MaxCell == 2
MaxRemainder == 1
MaxHeight == 3

Widths ==
    {0, 1, GridDimension - 1}
        \cup {s * GridDimension + d : s \in 1..MaxCell, d \in 0..MaxRemainder}
Heights == 0..MaxHeight

UnknownStyle == "hexagon"

\* An input buffer in cells of the size the sampler will assume: the cells
\* alternate; origin and rest are the colours of the origin pixel and of the
\* other pixels of the even cells, and the other way round in the odd cells.
Chequered(width, height, origin, rest) ==
    LET s == Max2(1, ModuleSize(width))
    IN  [width |-> width, height |-> height,
         data |-> [k \in Pixels(width, height) |->
                     LET x == k % width
                         y == k \div width
                         even == ((x \div s) + (y \div s)) % 2 = 0
                         atOrigin == x % s = 0 /\ y % s = 0
                     IN  IF even = atOrigin THEN origin ELSE rest]]

\* <<origin, rest, fgColor, bgColor>>
Paints ==
    {<<Black, White, Black, White>>, <<White, Black, White, Black>>,
     <<Aqua127, Maroon128, Black, White>>, <<Black, Black, Maroon128, Maroon128>>}

InitRaster ==
    /\ loads = << >>
    /\ nextLoad = 1
    /\ fav = FavIdle
    /\ lm = LmInit
    /\ selectedLogo = NoLogo
    /\ app = AppInit
    /\ runs = <<>>
    /\ heap = <<>>
    /\ nextCanvas = 1
    /\ \E w \in Widths, h \in Heights, p \in Paints,
          style \in Styles \cup {UnknownStyle} :
          raster = RasterCall(Chequered(w, h, p[1], p[2]), style, p[3], p[4])

NextRaster ==
    \/ ApplyDesignStyleEnter
    \/ SampleModule
    \/ NextRow
    \/ ApplyDesignStyleReturn

SpecRaster == InitRaster /\ [][NextRaster]_vars

\* The loop runs on: each of its steps is taken when it can be.
FairSpecRaster ==
    /\ SpecRaster
    /\ WF_vars(ApplyDesignStyleEnter)
    /\ WF_vars(SampleModule)
    /\ WF_vars(NextRow)
    /\ WF_vars(ApplyDesignStyleReturn)

\* ------------------------------------------------- drawStyledModule on pixels
\* The cell sizes from MinShapeCell on, and a canvas of three cells by three,
\* so that every cell next to the middle one is on the canvas.
MinShapeCell == 10
MaxShapeCell == 12
CellsAcross == 3

InitModule ==
    /\ loads = << >>
    /\ nextLoad = 1
    /\ fav = FavIdle
    /\ lm = LmInit
    /\ selectedLogo = NoLogo
    /\ app = AppInit
    /\ runs = <<>>
    /\ heap = <<>>
    /\ nextCanvas = 1
    /\ \E size \in MinShapeCell..MaxShapeCell, i \in 0..(CellsAcross - 1),
          j \in 0..(CellsAcross - 1), style \in (Styles \ {"square"}) \cup {UnknownStyle} :
          raster = ModuleCall(CellsAcross * size, CellsAcross * size, Black, White,
                              i * size, j * size, size, style)

NextModule == DrawModule

SpecModule == InitModule /\ [][NextModule]_vars

\* ------------------------------------------------ addBorderToCanvas on pixels
\* Buffers of up to MaxSide pixels a side and MaxPixels pixels in all, every
\* pixel any colour of the palette, and border widths from one below zero
\* to MaxBorder.
MaxSide == 2
MaxPixels == 4
MaxBorder == 2

Palette == {Black, White, Clear, Smoke}

BuffersOf(w, h) ==
    {[width |-> w, height |-> h, data |-> d] : d \in [Pixels(w, h) -> Palette]}

InitBorder ==
    /\ loads = << >>
    /\ nextLoad = 1
    /\ fav = FavIdle
    /\ lm = LmInit
    /\ selectedLogo = NoLogo
    /\ app = AppInit
    /\ runs = <<>>
    /\ heap = <<>>
    /\ nextCanvas = 1
    /\ \E w \in 0..MaxSide, h \in 0..MaxSide :
          /\ w * h <= MaxPixels
          /\ \E canvas \in BuffersOf(w, h), b \in (-1)..MaxBorder, c \in {Black, Smoke} :
                raster = BorderCall(canvas, b, c)

NextBorder == AddBorderStep

SpecBorder == InitBorder /\ [][NextBorder]_vars

\* ---------------------------------------------------- the logo's position
\* The square canvases the callers of addLogoToCanvas make, the sizes of the
\* logo slider, every layout and one that is none.
LogoWidths ==
    {PreviewSize, DefaultQRSize, HQSize}
        \cup {QualitySize(q) : q \in {"standard", "high", "ultra", "4k"}}

UnknownLayout == "corner"

InitPosition ==
    /\ loads = << >>
    /\ nextLoad = 1
    /\ fav = FavIdle
    /\ lm = LmInit
    /\ selectedLogo = NoLogo
    /\ app = AppInit
    /\ runs = <<>>
    /\ heap = <<>>
    /\ nextCanvas = 1
    /\ \E w \in LogoWidths, size \in MinLogoPercent..MaxLogoPercent,
          layout \in Layouts \cup {UnknownLayout} :
          raster = PositionCall(w, w, layout, size)

NextPosition == PlaceLogo

SpecPosition == InitPosition /\ [][NextPosition]_vars

\* ------------------------------------------------------ stages in any order
\* Up to MaxStages stages after the encoder.
MaxStages == 3

StageStyles == {"square", "dots"}
StageBorders == {0, MinBorderPx, MaxBorderPx}
StageImages == {None, Img(<<"logo">>, MinIconPx, MinIconPx)}

InitStages ==
    /\ loads = << >>
    /\ nextLoad = 1
    /\ fav = FavIdle
    /\ lm = LmInit
    /\ selectedLogo = NoLogo
    /\ app = AppInit
    /\ runs = <<>>
    /\ heap = <<>>
    /\ nextCanvas = 1
    /\ \E size \in {PreviewSize, DefaultQRSize} : raster = StagesCall(size)

StagesLeft == Len(SelectSeq(raster.trace, LAMBDA e : e \in {"styled", "logoed", "bordered"})) < MaxStages

NextStages ==
    \/ EncodeStageBegin
    \/ EncodeStageEnd
    \/ \E style \in StageStyles : StyleStage(style) /\ StagesLeft
    \/ \E img \in StageImages : LogoStage(img) /\ StagesLeft
    \/ \E b \in StageBorders : BorderStage(b) /\ StagesLeft

SpecStages == InitStages /\ [][NextStages]_vars

\* ------------------------------------------------- the compositor's inputs
\* Two square canvases of a few pixels, a chequerboard on each, every logo
\* size of the slider, every layout and shape and one unknown one of each,
\* and an image that failed to load, an opaque one and a translucent one.
MinLogoCanvas == 12
MaxLogoCanvas == 40

LogoCanvasWidths == {MinLogoCanvas, MaxLogoCanvas}
UnknownShape == "triangle"
Pictures == {None, Picture(Maroon128), Picture(Smoke)}

InitLogo ==
    /\ loads = << >>
    /\ nextLoad = 1
    /\ fav = FavIdle
    /\ lm = LmInit
    /\ selectedLogo = NoLogo
    /\ app = AppInit
    /\ runs = <<>>
    /\ heap = <<>>
    /\ nextCanvas = 1
    /\ \E w \in LogoCanvasWidths, img \in Pictures,
          shape \in LogoShapes \cup {UnknownShape},
          layout \in Layouts \cup {UnknownLayout},
          size \in MinLogoPercent..MaxLogoPercent :
          raster = LogoCall(Chequered(w, w, Black, White), Black, img,
                            [shape |-> shape, layout |-> layout, size |-> size,
                             bgColor |-> White])

NextLogo == AddLogoStep

SpecLogo == InitLogo /\ [][NextLogo]_vars

\* ----------------------------------------------- the normaliser's inputs
\* Decoded images of every pair of these widths and heights: below and at
\* the least accepted size, square and oblong, smaller and larger than the
\* canvas, widths that divide its size and widths that do not.
MaxIconPx == 512
IconDims == {MinIconPx - 1, MinIconPx, MinIconPx + 1, 49, 100,
             FaviconCanvasPx - 1, FaviconCanvasPx, MaxIconPx}

InitFavicon ==
    /\ loads = << >>
    /\ nextLoad = 1
    /\ fav = FavIdle
    /\ lm = LmInit
    /\ selectedLogo = NoLogo
    /\ app = AppInit
    /\ runs = <<>>
    /\ heap = <<>>
    /\ nextCanvas = 1
    /\ \E w \in IconDims, h \in IconDims : raster = FaviconCall(Img("icon", w, h))

NextNormalize == NormalizeStep

SpecNormalize == InitFavicon /\ [][NextNormalize]_vars

\* The LogoManager's form used again and again: a fetch, its finally block,
\* the timers the finally blocks arm, and the next fetch.
NextManager ==
    \/ \E u \in LmUrls : HandleFetchFavicon(u) /\ UNCHANGED <<pipeVars, rasterVars>>
    \/ FavResume /\ UNCHANGED <<pipeVars, rasterVars>>
    \/ HandleFetchFaviconDone /\ UNCHANGED <<pipeVars, rasterVars>>
    \/ FetchFaviconReturn /\ UNCHANGED <<pipeVars, rasterVars>>
    \/ ResetFetchStatus /\ UNCHANGED <<pipeVars, rasterVars>>
    \/ LoadEvents /\ UNCHANGED <<favVars, pipeVars, rasterVars>>
    \/ Tick

SpecManager == Init /\ [][NextManager]_vars

\* ------------------------------------------------ the batch on its own
\* generateBatch over every list of up to MaxBatchItems items, each item
\* empty, encodable or too long for a symbol.
MaxBatchItems == 3

BatchListsOf(n) == [1..n -> Contents]

\* The design the batch is generated with: the default one, and one with a
\* style, a logo and a border.
BatchProps ==
    {DefaultProps,
     [DefaultProps EXCEPT !.designStyle = "dots", !.enableLogo = TRUE,
                          !.enableBorder = TRUE]}

InitBatch ==
    /\ loads = << >>
    /\ nextLoad = 1
    /\ fav = FavIdle
    /\ lm = LmInit
    /\ selectedLogo \in {NoLogo, PresetLogo}
    /\ \E p \in BatchProps, n \in 1..MaxBatchItems :
          \E cs \in BatchListsOf(n) :
             app = [AppInit EXCEPT !.props = p, !.content = "ok",
                                   !.batch.items = BatchItems(cs),
                                   !.batch.logo = selectedLogo]
    /\ runs = <<>>
    /\ heap = <<>>
    /\ nextCanvas = 1
    /\ raster = NoRaster

NextBatch ==
    \/ GenerateBatch(BatchQuality)
    \/ \E k \in RunIds : BatchNext(k)
    \/ \E k \in RunIds : EncodeDone(k)
    \/ \E k \in RunIds : LogoDone(k)
    \/ LoadEvents /\ UNCHANGED <<favVars, pipeVars, rasterVars>>
    \/ Tick

SpecBatch == InitBatch /\ [][NextBatch]_vars

\* ------------------------------------------------ the history on its own
\* addToHistory and clearHistory in any order, from the empty history the
\* page starts with when localStorage holds none.
InitHistory ==
    /\ loads = << >>
    /\ nextLoad = 1
    /\ fav = FavIdle
    /\ lm = LmInit
    /\ selectedLogo = NoLogo
    /\ app = AppInit
    /\ runs = <<>>
    /\ heap = <<>>
    /\ nextCanvas = 1
    /\ raster = HistoryCall

NextHistory ==
    \/ AddToHistory("ok", DataUrl(Blank(DefaultQRSize, DefaultQRSize), "image/png"))
    \/ ClearHistory

SpecHistory == InitHistory /\ [][NextHistory]_vars

\* ------------------------------------------------ claims on the Image Resolver

FirstOutcome(l) == l.events[1].out

\* C1: for every Image Resolver call and every interleaving of its events,
\* the caller observes exactly one outcome, the one of the event that fired
\* first; events firing later never change, replace or re-deliver it.
C1_FirstEventWins ==
    \A i \in LoadIds :
        LET l == loads[i] IN
        /\ Len(l.observed) <= 1
        /\ l.events = <<>> => l.observed = <<>> /\ l.state = "pending"
        /\ l.events # <<>> =>
              /\ l.state = "fulfilled"
              /\ l.observed = <<FirstOutcome(l)>>
              /\ l.value = FirstOutcome(l)

\* A call whose timer fired first and whose decode completed afterwards.
C1_Witness ==
    \E i \in LoadIds :
        /\ Len(loads[i].events) = 2
        /\ loads[i].events[1].ev = "timeout"
        /\ loads[i].events[2].ev = "load"
        /\ loads[i].events[2].out # None
        /\ loads[i].observed = <<None>>

\* C7: loadImage resolves to the decoded image when the decode completes
\* before the timer, and to none when the decode fails or the 5000 ms timer
\* fires first; the promise is never rejected, the timer never fires before
\* 5000 ms have passed and each call makes exactly one decode attempt.
C7_LoadImageOutcome ==
    \A i \in LoadIds :
        LET l == loads[i] IN
        l.kind = "loadImage" =>
            /\ l.state \in {"pending", "fulfilled"}
            /\ l.decodes = 1
            /\ l.events # <<>> =>
                  /\ l.state = "fulfilled"
                  /\ l.events[1].ev = "load" =>
                        /\ l.value.tag = "img"
                        /\ l.value.src = l.src
                        /\ l.value.w \in ImgDims /\ l.value.h \in ImgDims
                  /\ l.events[1].ev \in {"error", "timeout"} => l.value = None
            /\ \A k \in 1..Len(l.events) :
                  l.events[k].ev = "timeout" => l.elapsed >= 5000

\* A loadImage call whose decode completed first and whose timer fired later.
C7_Witness ==
    \E i \in LoadIds :
        /\ loads[i].kind = "loadImage"
        /\ Len(loads[i].events) = 2
        /\ loads[i].events[1].ev = "load"
        /\ loads[i].events[2].ev = "timeout"
        /\ loads[i].value.tag = "img"

\* -------------------------------------- claims on the Favicon Resolution Engine

Resolved == fav.state = "done" /\ fav.result # None
Exhausted == fav.state = "done" /\ fav.result = None

Pending == {i \in LoadIds : loads[i].state = "pending"}

\* C2: during a fetchFavicon call at most one Image Resolver load is in
\* flight: the only load that can be pending is the probe of the current
\* candidate, so the next probe starts only after the previous one resolved.
C2_OneLoadInFlight ==
    /\ Cardinality(Pending) <= 1
    /\ \A i \in Pending : fav.state = "probing" /\ i = fav.load
    /\ \A i \in LoadIds : i # fav.load => loads[i].state = "fulfilled"

\* The second probe is pending while the image of the first, which timed out,
\* has not yet reported its abandoned request.
C2_Witness ==
    /\ fav.state = "probing"
    /\ fav.i = 2
    /\ loads[fav.load].state = "pending"
    /\ \E j \in LoadIds :
          /\ j # fav.load
          /\ loads[j].src = fav.sources[1]
          /\ loads[j].request = "empty"

\* The first event of a probe rejected its candidate.
Rejected(l) ==
    /\ l.events # <<>>
    /\ \/ l.events[1].ev \in {"timeout", "error"}
       \/ /\ l.events[1].ev = "load"
          /\ l.events[1].w < 16 \/ l.events[1].h < 16

\* The first event of a probe is a load of an image of at least 16 x 16.
Accepted(l) ==
    /\ l.events # <<>>
    /\ l.events[1].ev = "load"
    /\ l.events[1].w >= 16
    /\ l.events[1].h >= 16

\* The candidate list in its declared order, for the site a.io.
DeclaredOrder(origin) ==
    << <<"https://www.google.com/s2/favicons?domain=", "a", ".", "i", "o", "&sz=256">>,
       <<"https://icons.duckduckgo.com/ip3/", "a", ".", "i", "o", ".ico">>,
       <<"https://logo.clearbit.com/", "a", ".", "i", "o">>,
       <<"https://api.faviconkit.com/", "a", ".", "i", "o", "/256">>,
       origin \o <<"/apple-touch-icon.png">>,
       origin \o <<"/apple-touch-icon-precomposed.png">>,
       origin \o <<"/favicon-32x32.png">>,
       origin \o <<"/favicon.ico">> >>

\* C3: fetchFavicon returns the image of the lowest-index candidate, in the
\* declared order, whose load succeeds before its timeout with both
\* dimensions >= 16: the candidates are probed in order from the first, the
\* loop leaves a candidate only when its probe timed out, failed or was
\* smaller than 16 in a dimension, and the result is the normalised image of
\* the current candidate, whose acceptance depends on the size test alone.
C3_LowestAcceptedCandidate ==
    /\ [](fav.sources # <<>> =>
            \/ fav.sources = DeclaredOrder(Str_https \o Str_host)
            \/ fav.sources = DeclaredOrder(Str_http \o Str_host))
    /\ [](fav.probed = [k \in 1..fav.i |-> k])
    /\ [](Resolved =>
            LET l == loads[fav.load] IN
            /\ l.src = fav.sources[fav.i]
            /\ Accepted(l)
            /\ fav.result.tag = "png"
            /\ fav.result.of = Img(l.src, l.events[1].w, l.events[1].h))
    /\ [](\A i \in LoadIds :
            loads[i].kind = "loadFaviconImage" /\ Accepted(loads[i])
                => loads[i].value # None)
    /\ [][fav.i >= 1 /\ fav.i' # fav.i
            => fav.i' = fav.i + 1 /\ Rejected(loads[fav.load])]_vars
    /\ [][Exhausted' /\ fav.i >= 1 => Rejected(loads[fav.load])]_vars

\* Candidate 1 timed out and candidate 2 gave a 20 x 20 image: the result is
\* candidate 2's image.
C3_Witness ==
    /\ Resolved
    /\ fav.i = 2
    /\ fav.result.of = Img(fav.sources[2], 20, 20)
    /\ \E j \in LoadIds :
          /\ loads[j].src = fav.sources[1]
          /\ loads[j].events[1].ev = "timeout"

HasScheme(s) == StartsWith(s, Str_http) \/ StartsWith(s, Str_https)

\* C4: fetchFavicon never throws; it returns none when the URL cannot be
\* parsed (nothing is probed then) and when the last of the eight candidates
\* was rejected; a site URL without a scheme is probed under https://.
C4_NoneNeverThrows ==
    /\ fav.state \in {"idle", "probing", "done"}
    /\ fav.state = "done" /\ fav.sources = <<>> =>
          fav.result = None /\ fav.probed = <<>>
    /\ fav.state = "done" /\ fav.sources # <<>> /\ Rejected(loads[fav.load]) =>
          fav.result = None /\ Len(fav.probed) = 8
    /\ Exhausted =>
          fav.sources = <<>> \/ (fav.i = 8 /\ Rejected(loads[fav.load]))
    /\ fav.state # "idle" /\ ~HasScheme(Trim(fav.url)) =>
          /\ fav.normalized = Str_https \o Trim(fav.url)
          /\ fav.sources # <<>> =>
                fav.sources = DeclaredOrder(Str_https \o Trim(fav.url))
    /\ fav.state # "idle" /\ fav.url \in {<<>>, Str_https, <<"a", " ", "b">>} =>
          Exhausted

\* A site URL without a scheme whose eight candidates were all rejected.
C4_Witness ==
    /\ Exhausted
    /\ fav.url = Str_host
    /\ fav.caller = "api"
    /\ Len(fav.probed) = 8

\* C5: within one fetchFavicon call the candidates are probed in increasing
\* index order, each at most once, and once the call is Resolved or
\* Exhausted nothing is probed any more.
C5_NoRetryAbsorbing ==
    /\ [](\A k \in 1..Len(fav.probed) : fav.probed[k] = k)
    /\ [](Len(fav.probed) <= Len(fav.sources))
    /\ [][fav.state = "done" => fav' = fav /\ nextLoad' = nextLoad]_vars

\* A call that is Resolved at the third candidate while an earlier image's
\* abandoned request is still to report.
C5_Witness ==
    /\ Resolved
    /\ fav.probed = <<1, 2, 3>>
    /\ \E j \in LoadIds : j # fav.load /\ loads[j].request = "empty"

\* C6: every fetchFavicon call ends, Resolved or Exhausted, after at most 8
\* probes and, timers firing on time, within 8 times the 5000 ms timeout.
C6_BoundedTermination ==
    /\ [](Len(fav.probed) <= 8)
    /\ [](fav.elapsed <= 8 * 5000)
    /\ (fav.state = "probing") ~> (Resolved \/ Exhausted)

\* All eight candidates ran into their timeout.
C6_Witness ==
    /\ Exhausted
    /\ Len(fav.probed) = 8
    /\ fav.elapsed = 8 * 5000

\* ------------------------------------------------------- claims on the pipeline

\* C8: when the logo image fails to load or times out, addLogoToCanvas gives
\* back the canvas it was given, with the same dimensions and the same
\* content, and does not raise.
C8_LogoFailureNoOp ==
    \A k \in RunIds :
        runs[k].logoFailed =>
            /\ runs[k].logoOut.tag = "canvas"
            /\ runs[k].logoOut.id = runs[k].logoIn.id
            /\ runs[k].logoOut.canvas.width = runs[k].logoIn.canvas.width
            /\ runs[k].logoOut.canvas.height = runs[k].logoIn.canvas.height
            /\ runs[k].logoOut.canvas.ops = runs[k].logoIn.canvas.ops

C8_Witness ==
    \E k \in RunIds :
        /\ runs[k].logoFailed
        /\ runs[k].logoOut.tag = "canvas"
        /\ runs[k].logoOut.canvas.ops # <<>>
        /\ runs[k].outcome = "delivered"

\* The canvas the pipeline gives for a job when the logo stage is left out.
WithoutLogo(job) ==
    LET F0 == [heap |-> << >>, next |-> 1, cur |-> 0, trace |-> <<>>,
               threw |-> FALSE]
        F1 == GenerateQRCanvasEnd(GenerateQRCanvasBegin(F0, job.size),
                                  job.content, job.fg, job.bg)
        F2 == ApplyDesignStyle(F1, job.style, job.fg, job.bg)
        F3 == IF job.enableBorder
              THEN AddBorderToCanvas(F2, job.borderWidth, job.borderColor)
              ELSE F2
    IN  F3.heap[F3.cur]

LogoFailedRun(k) ==
    /\ runs[k].caller = "generateQR"
    /\ runs[k].job.enableLogo
    /\ runs[k].job.logo # NoLogo
    /\ runs[k].logoFailed

\* C9: a generateQR call whose logo is enabled and selected but fails to load
\* goes on to show a QR (hasQR true, no error status) whose canvas is what
\* the pipeline gives without the logo stage, and ends verified or warned;
\* only the encoder makes a call fail; and a favicon fetch that gave nothing
\* leaves the selected logo and the custom logos as they were.
C9_FailureNeverAborts ==
    /\ [](\A k \in RunIds :
            LogoFailedRun(k) =>
                /\ runs[k].pc \in {"verify", "done"}
                /\ app.hasQR
                /\ runs[k].pc = "verify" => app.status # "error"
                /\ heap[runs[k].cur] = WithoutLogo(runs[k].job))
    /\ [][\A k \in RunIds :
            (LogoFailedRun(k) /\ runs[k].pc = "verify" /\ runs'[k].pc = "done") =>
                /\ app'.hasQR
                /\ app'.status \in {"verified", "warning"}]_vars
    /\ [](\A k \in RunIds :
            runs[k].outcome = "failed" => ~Encodable(runs[k].job.content))
    /\ [][(lm.awaiting /\ ~lm'.awaiting /\ fav.result = None) =>
            /\ selectedLogo' = selectedLogo
            /\ lm'.customLogos = lm.customLogos]_vars

C9_Witness ==
    \E k \in RunIds :
        /\ LogoFailedRun(k)
        /\ runs[k].pc = "done"
        /\ app.hasQR
        /\ lm.fetchStatus = "error"

\* The stage events of a call, from what the call was asked to do.
ExpectedStages(job) ==
    <<"encode", "encoded", "style", "styled">>
        \o (IF job.enableLogo /\ job.logo # NoLogo
            THEN <<"logo", "logoed">> ELSE <<>>)
        \o (IF job.enableBorder THEN <<"border", "bordered">> ELSE <<>>)

IsPrefix(s, t) == Len(s) <= Len(t) /\ SubSeq(t, 1, Len(s)) = s

PipelineCallers ==
    {"generateQR", "handleDownload", "LivePreview", "generateBatch",
     "generateHQPreview"}

\* C10: in every call of the five callers the stages start and end in the
\* order encode, style, logo, border, each after the one before has ended;
\* the logo stage is there only when the logo is enabled and selected, the
\* border stage only when the border is enabled, and nothing follows it.
C10_StageOrder ==
    \A k \in RunIds :
        /\ runs[k].caller \in PipelineCallers
        /\ IsPrefix(runs[k].trace, ExpectedStages(runs[k].job))
        /\ runs[k].outcome = "delivered" =>
               runs[k].trace = ExpectedStages(runs[k].job)

C10_Witness ==
    \E k \in RunIds, j \in RunIds :
        /\ runs[k].caller = "LivePreview"
        /\ runs[j].caller = "generateBatch"
        /\ runs[k].outcome = "delivered"
        /\ runs[j].outcome = "delivered"
        /\ Len(runs[k].trace) = 8
        /\ Len(runs[j].trace) = 8

\* ------------------------------------------------- claims on the rasterizer

\* The call is one of applyDesignStyle, or one of addBorderToCanvas.
IsStyleCall == "style" \in DOMAIN raster /\ "canvas" \in DOMAIN raster
IsBorderCall == "borderWidth" \in DOMAIN raster

\* A call of applyDesignStyle that has returned, and one that went through
\* the loops.
Returned == raster.pc = "done"
Styled == Returned /\ raster.style # "square"

\* C11: applyDesignStyle with style 'square' returns its input buffer: the
\* same dimensions and the same colour at every pixel, whatever the buffer
\* and the colours fgColor and bgColor are.
C11_SquareIdentity ==
    (Returned /\ raster.style = "square") =>
        /\ raster.result.width = raster.canvas.width
        /\ raster.result.height = raster.canvas.height
        /\ \A k \in Pixels(raster.canvas.width, raster.canvas.height) :
              raster.result.data[k] = raster.canvas.data[k]

\* A square call returned a buffer of two colours, wider than the grid, none
\* of them the background colour it was given.
C11_Witness ==
    /\ Returned /\ raster.style = "square"
    /\ raster.result.width > GridDimension /\ raster.result.height > 1
    /\ PixelAt(raster.result, 0, 0) # PixelAt(raster.result, 1, 0)
    /\ \A k \in Pixels(raster.result.width, raster.result.height) :
          raster.result.data[k] # raster.bgColor

\* The pixels of the cell with origin (x, y) and the given size.
InCell(x, y, size, px, py) ==
    px \in x..(x + size - 1) /\ py \in y..(y + size - 1)

\* The pixels of a buffer that do not have the colour c.
Unlike(buf, c) ==
    {<<k % buf.width, k \div buf.width>> : k \in {n \in Pixels(buf.width, buf.height) : buf.data[n] # c}}

\* C12: for every style but square and every cell size of 10 pixels or
\* more, the shape drawStyledModule draws for the cell with origin (x, y)
\* changes pixels of that cell only, none of a neighbouring cell.
C12_ShapeInsideCell ==
    (raster.pc = "drawn" /\ raster.style \in Styles /\ raster.moduleSize >= MinShapeCell) =>
        \A p \in Unlike(raster.newCanvas, raster.bgColor) :
            InCell(raster.x, raster.y, raster.moduleSize, p[1], p[2])

\* A star was drawn in the middle cell: it covers the pixel at the centre,
\* overlaps others in part, and leaves the corner of the cell alone.
C12_Witness ==
    /\ raster.pc = "drawn" /\ raster.style = "star"
    /\ raster.moduleSize > MinShapeCell
    /\ raster.x = raster.moduleSize /\ raster.y = raster.moduleSize
    /\ PixelAt(raster.newCanvas, raster.x + raster.moduleSize \div 2,
                                 raster.y + raster.moduleSize \div 2) = raster.fgColor
    /\ \E p \in Unlike(raster.newCanvas, raster.bgColor) :
          PixelAt(raster.newCanvas, p[1], p[2]) # raster.fgColor
    /\ PixelAt(raster.newCanvas, raster.x, raster.y) = raster.bgColor

\* The origin of the sampler's cell a pixel lies in.
OriginOf(px, py) ==
    <<px - (px % raster.moduleSize), py - (py % raster.moduleSize)>>

\* The cells the sampler classified light, by their origins.
LightOrigins ==
    {o \in (0..(raster.canvas.width - 1)) \X (0..(raster.canvas.height - 1)) :
        /\ o = OriginOf(o[1], o[2])
        /\ ~IsDark(PixelAt(raster.canvas, o[1], o[2]))}

\* C13: for every style but square, every pixel of the returned buffer that
\* lies in a cell the sampler classified light has the colour bgColor.
C13_LightCellsAreBackground ==
    Styled =>
        \A k \in Pixels(raster.result.width, raster.result.height) :
            OriginOf(k % raster.result.width, k \div raster.result.width) \in LightOrigins
                => raster.result.data[k] = raster.bgColor

\* A styled buffer of cells of two pixels by two: a light cell whose other
\* pixels were dark in the input came out in the background colour, next to
\* a dark cell with a shape in it.
C13_Witness ==
    /\ Styled /\ raster.style \in Styles
    /\ raster.moduleSize > 1 /\ raster.canvas.height > raster.moduleSize
    /\ raster.fgColor # raster.bgColor
    /\ \E o \in LightOrigins :
          /\ InBuffer(raster.canvas, o[1] + 1, o[2] + 1)
          /\ IsDark(PixelAt(raster.canvas, o[1] + 1, o[2] + 1))
          /\ PixelAt(raster.result, o[1] + 1, o[2] + 1) = raster.bgColor
    /\ Unlike(raster.result, raster.bgColor) # {}

\* ------------------------------------------- claims on the border compositor

\* A call of addBorderToCanvas with a width of zero or more has returned.
Bordered == raster.pc = "bordered" /\ raster.borderWidth >= 0

\* The pixel of the input buffer that lands on pixel k of the result, as a
\* set: empty where k lies in the border.
SourceOf(k) ==
    LET x == (k % raster.result.width) - raster.borderWidth
        y == (k \div raster.result.width) - raster.borderWidth
    IN  IF InBuffer(raster.canvas, x, y) THEN {PixelAt(raster.canvas, x, y)} ELSE {}

\* C14 as claimed: for a w x h buffer and a border width b >= 0 the result is
\* (w + 2b) x (h + 2b), its region [b, b+w) x [b, b+h) equals the input
\* pixel for pixel, and every other pixel has the border colour.
C14_RegionEqualsInput ==
    Bordered =>
        /\ raster.result.width = raster.canvas.width + 2 * raster.borderWidth
        /\ raster.result.height = raster.canvas.height + 2 * raster.borderWidth
        /\ \A k \in Pixels(raster.result.width, raster.result.height) :
              IF SourceOf(k) = {} THEN raster.result.data[k] = raster.borderColor
              ELSE raster.result.data[k] \in SourceOf(k)

\* C14 as amended: the result is (w + 2b) x (h + 2b); in the region
\* [b, b+w) x [b, b+h) it equals the input wherever the input pixel is
\* opaque and has the border colour wherever the input pixel is fully
\* transparent; every other pixel has the border colour.
C14_RegionIsInputOverBorder ==
    Bordered =>
        /\ raster.result.width = raster.canvas.width + 2 * raster.borderWidth
        /\ raster.result.height = raster.canvas.height + 2 * raster.borderWidth
        /\ \A k \in Pixels(raster.result.width, raster.result.height) :
              /\ SourceOf(k) = {} => raster.result.data[k] = raster.borderColor
              /\ \A p \in SourceOf(k) :
                    /\ p.a = 255 => raster.result.data[k] = p
                    /\ p.a = 0 => raster.result.data[k] = raster.borderColor

\* A buffer of two pixels by two with an opaque and a transparent pixel got
\* a border of one pixel or more.
C14_Witness ==
    /\ Bordered /\ raster.borderWidth >= 1
    /\ raster.canvas.width > 1 /\ raster.canvas.height > 1
    /\ PixelAt(raster.canvas, 0, 0) = White
    /\ PixelAt(raster.canvas, 1, 1) = Clear
    /\ PixelAt(raster.result, raster.borderWidth, raster.borderWidth) = White
    /\ PixelAt(raster.result, 0, 0) = raster.borderColor

\* --------------------------------------------- claims on the logo compositor

\* A length of n / d pixels in position units.
Px(n, d) == (n * PosUnit) \div d

\* The anchor C15 gives for a layout on a W x W buffer with logo side L and
\* margin m.
ClaimedAnchor(layout, W, L, m) ==
    CASE layout = "center" -> <<(W - L) \div 2, (W - L) \div 2>>
      [] layout = "top-left" -> <<m, m>>
      [] layout = "top-right" -> <<W - L - m, m>>
      [] layout = "bottom-left" -> <<m, W - L - m>>
      [] layout = "bottom-right" -> <<W - L - m, W - L - m>>
      [] layout = "watermark" -> <<(W - L) \div 2, W - L - 2 * m>>

\* C15: on a W x W buffer with size p per cent the logo side is
\* L = W * p / 100, the margin m = 0.08 * W, and the anchor is the one the
\* claim gives for each of the six layouts; for W = 400 and p = 15 the side
\* is 60, the top-left anchor (32, 32) and the center anchor (170, 170).
C15_LogoAnchor ==
    (raster.pc = "positioned" /\ raster.width = raster.height
                              /\ raster.layout \in Layouts) =>
        LET W == raster.width
            L == Px(W * raster.size, 100)
            m == Px(8 * W, 100)
        IN  /\ raster.logoSize = L
            /\ <<raster.position.x, raster.position.y>>
                    = ClaimedAnchor(raster.layout, Px(W, 1), L, m)
            /\ (W = 400 /\ raster.size = 15) =>
                  /\ raster.logoSize = Px(60, 1)
                  /\ raster.layout = "top-left" =>
                        raster.position = [x |-> Px(32, 1), y |-> Px(32, 1)]
                  /\ raster.layout = "center" =>
                        raster.position = [x |-> Px(170, 1), y |-> Px(170, 1)]

\* The logo was placed top-left on the 400 x 400 preview at 15 per cent.
C15_Witness ==
    /\ raster.pc = "positioned"
    /\ raster.width = 400 /\ raster.size = 15 /\ raster.layout = "top-left"
    /\ raster.position.x = Px(32, 1)

\* C19: after the encoder and any sequence of stages (applyDesignStyle with
\* any style, addLogoToCanvas, addBorderToCanvas with a width of zero or
\* more) the current buffer is square and its width strictly positive.
C19_BufferStaysSquare ==
    raster.pc \in {"encoding", "staged"} =>
        /\ heap[raster.cur].width = heap[raster.cur].height
        /\ heap[raster.cur].width > 0

\* Three stages ran, a border among them, and the buffer grew by it.
C19_Witness ==
    /\ raster.pc = "staged"
    /\ Len(raster.trace) > 2 * MaxStages
    /\ \E i \in DOMAIN raster.trace : raster.trace[i] = "bordered"
    /\ \E i \in DOMAIN raster.trace : raster.trace[i] = "logoed"
    /\ heap[raster.cur].width > raster.size

\* ------------------------------------------------- claims on the sampling loops

\* C16, its first half: applyDesignStyle with a style other than square is
\* never in its sampling loops with a cell size of zero, the zero that
\* floor(width / 37) gives for a width below 37 being rejected before use.
C16_ZeroCellRejected ==
    raster.pc = "loop" => raster.moduleSize > 0

\* C16, its second half: the call ends, whatever the buffer of strictly
\* positive dimensions.
C16_Terminates ==
    (raster.pc = "enter" /\ raster.canvas.width > 0 /\ raster.canvas.height > 0)
        ~> (raster.pc \in {"done", "threw"})

\* C18: with cell size s = floor(W / 37) and a style other than square,
\* every pixel of the returned buffer in the strips right of and below the
\* grid (x >= 37 * s or y >= 37 * s) has the colour bgColor, whatever the
\* input buffer holds: no shape is drawn for an origin outside the grid.
C18_RemainderIsBackground ==
    Styled =>
        /\ raster.moduleSize = raster.canvas.width \div GridDimension
        /\ \A k \in Pixels(raster.result.width, raster.result.height) :
              (\/ k % raster.result.width >= GridDimension * raster.moduleSize
               \/ k \div raster.result.width >= GridDimension * raster.moduleSize)
                  => raster.result.data[k] = raster.bgColor

\* The cell origins of a call: the points of the buffer both of whose
\* coordinates are multiples of the cell size (of zero: zero).
IsMultiple(n, size) == IF size = 0 THEN n = 0 ELSE n % size = 0
Origins ==
    {o \in (0..(raster.canvas.width - 1)) \X (0..(raster.canvas.height - 1)) :
        IsMultiple(o[1], raster.moduleSize) /\ IsMultiple(o[2], raster.moduleSize)}

\* The origins whose one input pixel has a red channel below 128.
RedDarkOrigins == {o \in Origins : PixelAt(raster.canvas, o[1], o[2]).r < 128}

\* A call of applyDesignStyle with a style other than square is in its loops
\* or has returned from them.
Sampling == IsStyleCall /\ raster.style # "square" /\ raster.pc \in {"loop", "done"}

\* C20: for a style other than square, applyDesignStyle draws exactly one
\* shape for each cell origin whose input pixel has a red channel below 128
\* and none for any other origin; the other channels and the other pixels
\* of the cell play no part.
C20_OneShapePerDarkOrigin ==
    Sampling =>
        /\ raster.drawn \subseteq RedDarkOrigins
        /\ raster.redrawn = {}
        /\ Returned => raster.drawn = RedDarkOrigins

\* The part of C20 about the calls that return.
C20_WhenReturned ==
    Styled => (raster.drawn = RedDarkOrigins /\ raster.redrawn = {})

\* ------------------------------------------------ claims on malformed input

\* The input of the call is malformed: a style that is none of the nine, a
\* buffer without pixels, a border width below zero.
Malformed ==
    \/ /\ IsStyleCall
       /\ \/ raster.style \notin Styles
          \/ raster.canvas.width <= 0 \/ raster.canvas.height <= 0
    \/ /\ IsBorderCall
       /\ \/ raster.borderWidth < 0
          \/ raster.canvas.width <= 0 \/ raster.canvas.height <= 0

\* C17: a call with malformed input ends in an error at the entry point: it
\* draws nothing and returns no buffer.
C17_MalformedFailsFast ==
    Malformed => raster.pc \in {"enter", "border", "threw"}
\* ------------------------------------------------- claims of the compositor
\* The inset square of the cell with origin (x, y): its left and top edge
\* and its extent, in units of 1 / Sub pixel, with the inset a tenth of the
\* cell size.
InsetOf(size) == CHOOSE p \in 0..(size * Sub) : 10 * p = size * Sub
ExtentOf(size) == size * Sub - 2 * InsetOf(size)

\* The path is the square of the given extent at (left, top), its corners
\* rounded with a radius of num / den of the extent (not rounded: num = 0).
IsSquareAt(path, left, top, extent) ==
    /\ path.x = left /\ path.y = top
    /\ path.w = extent /\ path.h = extent
IsRoundedSquare(path, left, top, extent, num, den) ==
    /\ path.kind = "roundRect"
    /\ IsSquareAt(path, left, top, extent)
    /\ den * path.radius = num * extent

\* C21: the path drawStyledModule fills is determined by the style, the
\* cell's origin (x, y) and the cell size s alone, with inset p = s / 10 and
\* extent d = s - 2p: a rounded square of extent d at (x + p, y + p) with
\* corner radius d/4 (rounded), d/3 (classy-rounded), d/2 (extra-rounded),
\* d/2.5 (fluid); a plain square of extent d (classy); a circle about the
\* cell's centre with radius d/2.2 (dots); the polygon through the midpoints
\* of the inset square's four sides (diamond); eight vertices with radius
\* alternately d/2 and d/4, the first one straight up (star).
C21_StyleGeometry ==
    (raster.pc = "drawn" /\ raster.style \in Styles) =>
        LET path == raster.path
            s == raster.moduleSize * Sub
            p == InsetOf(raster.moduleSize)
            d == ExtentOf(raster.moduleSize)
            left == raster.x * Sub + p
            top == raster.y * Sub + p
        IN  CASE raster.style = "rounded" -> IsRoundedSquare(path, left, top, d, 1, 4)
              [] raster.style = "classy-rounded" -> IsRoundedSquare(path, left, top, d, 1, 3)
              [] raster.style = "extra-rounded" -> IsRoundedSquare(path, left, top, d, 1, 2)
              [] raster.style = "fluid" -> IsRoundedSquare(path, left, top, d, 2, 5)
              [] raster.style = "classy" ->
                    path.kind = "fillRect" /\ IsSquareAt(path, left, top, d)
              [] raster.style = "dots" ->
                    /\ path.kind = "arc"
                    /\ 2 * path.cx = 2 * raster.x * Sub + s
                    /\ 2 * path.cy = 2 * raster.y * Sub + s
                    /\ 22 * path.radius = 10 * d
              [] raster.style = "diamond" ->
                    /\ path.kind = "polygon"
                    /\ Len(path.points) = 4
                    /\ {<<2 * path.points[n][1], 2 * path.points[n][2]>> : n \in 1..4}
                         = {<<2 * left + d, 2 * top>>, <<2 * left + 2 * d, 2 * top + d>>,
                            <<2 * left + d, 2 * top + 2 * d>>, <<2 * left, 2 * top + d>>}
                    /\ \A n \in 1..4 :
                          /\ path.points[n][1] # path.points[(n % 4) + 1][1]
                          /\ path.points[n][2] # path.points[(n % 4) + 1][2]
              [] raster.style = "star" ->
                    /\ path.kind = "star"
                    /\ Len(path.vertices) = 8
                    /\ \A n \in 1..8 :
                          IF n % 2 = 1 THEN 2 * path.vertices[n].r = d
                                       ELSE 4 * path.vertices[n].r = d
                    /\ 2 * path.vertices[1].num = -path.vertices[1].den

\* A star was drawn for a cell away from the canvas's origin: the star's
\* second vertex is an inner one, nearer the centre than the first.
C21_Witness ==
    /\ raster.pc = "drawn" /\ raster.x > 0 /\ raster.y > raster.x
    /\ raster.style = "star"
    /\ raster.path.vertices[2].r < raster.path.vertices[1].r
    /\ raster.path.vertices[2].r > 0

\* A call of addLogoToCanvas whose image loaded has returned.
Composited == raster.pc = "logoed" /\ raster.calls # <<>>
Has(name) == \E n \in 1..Len(raster.calls) : raster.calls[n].call = name
CallIndex(name) == CHOOSE n \in 1..Len(raster.calls) : raster.calls[n].call = name
PadOf == raster.calls[CallIndex("fill")].path
ImageOf == raster.calls[CallIndex("drawImage")].path
ClipOf == IF Has("clip") THEN raster.calls[CallIndex("clip")].path ELSE NoClip

\* The bounding box of a path.
Box(path) ==
    IF path.kind = "arc"
    THEN [left |-> path.cx - path.radius, top |-> path.cy - path.radius,
          right |-> path.cx + path.radius, bottom |-> path.cy + path.radius]
    ELSE [left |-> path.x, top |-> path.y,
          right |-> path.x + path.w, bottom |-> path.y + path.h]

\* The kind of path that makes a shape.
KindOf(shape) ==
    CASE shape = "circle" -> "arc"
      [] shape = "rounded" -> "roundRect"
      [] shape = "square" -> "fillRect"

\* Pixel (i, j) receives some of the logo, and all of it is logo.
LogoOverlaps(i, j) == Overlaps(ImageOf, i, j) /\ Overlaps(ClipOf, i, j)
LogoContains(i, j) == Contains(ImageOf, i, j) /\ Contains(ClipOf, i, j)

\* C22: addLogoToCanvas fills the background pad before it draws the logo;
\* the pad has the shape kind of the logo and is logoSizePx + 2 * padding
\* wide and high, with padding = 0.15 * logoSizePx; and for the shapes
\* square, rounded and circle the region the logo is drawn or clipped into
\* lies within the pad, so that the pad shows in bgColor around the logo.
C22_LogoWithinPad ==
    (Composited /\ raster.options.shape \in LogoShapes) =>
        LET pad == PadOf
            canvas == raster.ctx.canvas
        IN  /\ raster.calls[1] = [call |-> "fillStyle", value |-> raster.options.bgColor]
            /\ CallIndex("fill") = 2
            /\ CallIndex("fill") < CallIndex("drawImage")
            /\ pad.kind = KindOf(raster.options.shape)
            /\ ClipOf = NoClip <=> raster.options.shape = "square"
            /\ ClipOf # NoClip => ClipOf.kind = pad.kind
            /\ 100 * ImageOf.w = raster.given.width * raster.options.size * LogoUnit
            /\ 100 * (Box(pad).right - Box(pad).left) = 130 * ImageOf.w
            /\ 100 * (Box(pad).bottom - Box(pad).top) = 130 * ImageOf.h
            /\ \A k \in Pixels(canvas.width, canvas.height) :
                  LET i == k % canvas.width
                      j == k \div canvas.width
                  IN  /\ LogoOverlaps(i, j) => Overlaps(pad, i, j)
                      /\ LogoContains(i, j) => Contains(pad, i, j)
                      /\ (Contains(pad, i, j) /\ ~LogoOverlaps(i, j)) =>
                            canvas.data[k] = raster.options.bgColor

\* A rounded logo on the larger canvas: some pixel is all logo, and some
\* pixel that was black is pad now.
C22_Witness ==
    /\ Composited /\ raster.options.shape = "rounded"
    /\ raster.given.width = MaxLogoCanvas
    /\ \E k \in Pixels(raster.given.width, raster.given.height) :
          /\ LogoContains(k % raster.given.width, k \div raster.given.width)
          /\ raster.ctx.canvas.data[k] = raster.img.color
    /\ \E k \in Pixels(raster.given.width, raster.given.height) :
          /\ ~LogoOverlaps(k % raster.given.width, k \div raster.given.width)
          /\ raster.given.data[k] = Black
          /\ raster.ctx.canvas.data[k] = raster.options.bgColor

\* Is the box within the canvas?
Within(box, canvas) ==
    /\ box.left >= 0 /\ box.top >= 0
    /\ box.right <= canvas.width * LogoUnit
    /\ box.bottom <= canvas.height * LogoUnit

\* C29: on a square canvas, for each of the six layouts and every logo size
\* from 10 to 25 percent, the logo's rectangle and its background pad lie
\* within the canvas: nothing of them is at a negative coordinate or beyond
\* the canvas's width or height.
C29_LogoWithinCanvas ==
    (/\ Composited
     /\ raster.given.width = raster.given.height
     /\ raster.options.layout \in Layouts
     /\ raster.options.size \in MinLogoPercent..MaxLogoPercent) =>
        /\ Within(Box(ImageOf), raster.given)
        /\ Within(Box(PadOf), raster.given)
        /\ 100 * (ImageOf.x - Box(PadOf).left) = 15 * ImageOf.w
        /\ 100 * (Box(PadOf).right - (ImageOf.x + ImageOf.w)) = 15 * ImageOf.w
        /\ 100 * (ImageOf.y - Box(PadOf).top) = 15 * ImageOf.h
        /\ 100 * (Box(PadOf).bottom - (ImageOf.y + ImageOf.h)) = 15 * ImageOf.h

\* The largest logo in the bottom right corner: its pad reaches into the
\* last column of pixels but not to the canvas's edge.
C29_Witness ==
    /\ Composited /\ raster.options.layout = "bottom-right"
    /\ raster.options.size = MaxLogoPercent
    /\ raster.options.shape = "circle"
    /\ Box(PadOf).right > (raster.given.width - 1) * LogoUnit
    /\ Box(PadOf).right < raster.given.width * LogoUnit
    /\ Box(PadOf).bottom > (raster.given.height - 1) * LogoUnit

\* Pixel (i, j) has a part in the box.
BoxOverlaps(box, i, j) ==
    /\ i * LogoUnit < box.right /\ (i + 1) * LogoUnit > box.left
    /\ j * LogoUnit < box.bottom /\ (j + 1) * LogoUnit > box.top

\* C30: a call of addLogoToCanvas whose image loaded changes pixels of the
\* pad's bounding box only, leaves the canvas's width and height as they
\* were, and returns with the clip it installed removed again.
C30_LogoFrame ==
    Composited =>
        /\ raster.ctx.canvas.width = raster.given.width
        /\ raster.ctx.canvas.height = raster.given.height
        /\ \A k \in Pixels(raster.given.width, raster.given.height) :
              ~BoxOverlaps(Box(PadOf), k % raster.given.width, k \div raster.given.width) =>
                  raster.ctx.canvas.data[k] = raster.given.data[k]
        /\ raster.ctx.clip = NoClip
        /\ raster.ctx.saved = <<>>

\* A circular logo was clipped and drawn: a pixel within the pad's box
\* changed, the pixel in the canvas's first corner did not.
C30_Witness ==
    /\ Composited /\ Has("clip") /\ raster.options.shape = "circle"
    /\ raster.options.layout = "watermark"
    /\ ~BoxOverlaps(Box(PadOf), 0, 0)
    /\ \E k \in Pixels(raster.given.width, raster.given.height) :
          /\ BoxOverlaps(Box(PadOf), k % raster.given.width, k \div raster.given.width)
          /\ raster.ctx.canvas.data[k] # raster.given.data[k]
          /\ raster.ctx.canvas.data[k] # raster.options.bgColor

\* The drawImage call of a normalised favicon.
DrawnIcon == raster.canvas.calls[Len(raster.canvas.calls)]

\* C23: for every accepted image of w by h pixels (w, h >= 16) the
\* normalisation makes a canvas of 256 by 256 and draws the image on it
\* scaled by min(256/w, 256/h): the drawn width and height are at most 256,
\* one of them is 256, they are in the ratio w : h, the offsets are
\* (256 - width) / 2 and (256 - height) / 2 and not negative, and every
\* pixel outside the drawn rectangle is white.
C23_FaviconFits ==
    (/\ raster.pc = "normalized"
     /\ raster.img.w >= MinIconPx /\ raster.img.h >= MinIconPx) =>
        /\ raster.outcome # None /\ raster.canvas # None
        /\ raster.canvas.width = 256 /\ raster.canvas.height = 256
        /\ LET d == DrawnIcon
               full == Whole(256)
               zero == Whole(0)
           IN  /\ d.call = "drawImage" /\ d.image = raster.img
               /\ AtMost(d.w, full) /\ AtMost(d.h, full)
               /\ AtMost(full, d.w) \/ AtMost(full, d.h)
               /\ d.w.num * d.h.den * raster.img.h = d.h.num * d.w.den * raster.img.w
               /\ AtMost(zero, d.x) /\ AtMost(zero, d.y)
               /\ 2 * d.x.num * d.w.den + d.w.num * d.x.den = 256 * d.x.den * d.w.den
               /\ 2 * d.y.num * d.h.den + d.h.num * d.y.den = 256 * d.y.den * d.h.den
               /\ \A i \in 0..255, j \in 0..255 :
                     ~RectOverlaps(d, i, j) =>
                         PixelAfter(raster.canvas.calls, Len(raster.canvas.calls),
                                    Black, i, j) = White

\* An image of 100 by 49 pixels was normalised: it fills the canvas's width,
\* leaves a white band above it and is not white at the centre.
C23_Witness ==
    /\ raster.pc = "normalized" /\ raster.img.w = 100 /\ raster.img.h = 49
    /\ raster.canvas # None
    /\ DrawnIcon.w.num = 256 * DrawnIcon.w.den
    /\ ~AtMost(DrawnIcon.y, Whole(0))
    /\ PixelAfter(raster.canvas.calls, Len(raster.canvas.calls), Black, 128, 0) = White
    /\ PixelAfter(raster.canvas.calls, Len(raster.canvas.calls), Black, 128, 128) # White

\* ----------------------------------------------------- claims of ownership
\* A stage that took the frame F to the frame G left every canvas of F as it
\* was and gave back a canvas that F did not have.
GaveFresh(F, G) ==
    /\ G.cur \notin DOMAIN F.heap
    /\ G.cur \in DOMAIN G.heap
    /\ \A id \in DOMAIN F.heap : G.heap[id] = F.heap[id]

\* A stage that took the frame F to the frame G gave back the canvas it was
\* given and touched no other.
GaveSame(F, G) ==
    /\ G.cur = F.cur
    /\ DOMAIN G.heap = DOMAIN F.heap
    /\ \A id \in DOMAIN F.heap \ {F.cur} : G.heap[id] = F.heap[id]

\* The stages the continuation of run k is about to run, each on the frame
\* the one before it left.
StagesKeepInput ==
    \A k \in RunIds :
        LET r == runs[k]
            job == r.job
            F0 == FrameOf(r.cur, r.trace)
        IN  /\ r.pc = "encode" =>
                  LET F1 == GenerateQRCanvasEnd(F0, job.content, job.fg, job.bg)
                      F2 == ApplyDesignStyle(F1, job.style, job.fg, job.bg)
                  IN  ~F1.threw =>
                         /\ job.style # "square" => GaveFresh(F1, F2)
                         /\ (~NeedsLogo(job) /\ NeedsBorder(job)) =>
                               GaveFresh(F2, AfterLogo(F2, job))
            /\ (r.pc = "logo" /\ loads[r.load].state = "fulfilled") =>
                  LET F1 == AddLogoToCanvasEnd(F0, loads[r.load].value, LogoOptions(job))
                  IN  /\ GaveSame(F0, F1)
                      /\ loads[r.load].value # None => F1.heap[F1.cur] # F0.heap[F0.cur]
                      /\ NeedsBorder(job) => GaveFresh(F1, AfterLogo(F1, job))

\* The runs that hold canvas id as their current buffer.
Holders(id) == {k \in RunIds : runs[k].cur = id}

\* One step: a canvas that changes is held by one run, the run that takes
\* the step, which is in its encode or logo stage; no canvas goes away; and
\* a run that takes another canvas takes one that did not exist before.
OneWriter ==
    /\ DOMAIN heap \subseteq DOMAIN heap'
    /\ \A id \in DOMAIN heap :
          heap'[id] # heap[id] =>
              /\ Cardinality(Holders(id)) = 1
              /\ \A k \in Holders(id) :
                    runs'[k] # runs[k] /\ runs[k].pc \in {"encode", "logo"}
    /\ \A k \in DOMAIN runs' :
          (k \notin RunIds \/ runs'[k].cur # runs[k].cur) =>
              runs'[k].cur = 0 \/ runs'[k].cur \notin DOMAIN heap

\* C24: applyDesignStyle (for a style other than square) and
\* addBorderToCanvas leave the canvas they are given as it was and return a
\* new one; addLogoToCanvas alone draws on the canvas it is given and returns
\* that canvas; and however the runs of the callers interleave, no canvas is
\* ever drawn on by two of them.
C24_OneOwnerPerBuffer == [](StagesKeepInput) /\ [][OneWriter]_vars

\* Two runs are in their logo stage at once, each holding its own styled
\* canvas, and the image of one of them has loaded.
C24_Witness ==
    \E k \in RunIds, j \in RunIds :
        /\ k # j
        /\ runs[k].pc = "logo" /\ runs[j].pc = "logo"
        /\ runs[k].cur # runs[j].cur
        /\ runs[k].job.style # "square"
        /\ heap[runs[k].cur].ops # <<>> /\ heap[runs[j].cur].ops # <<>>
        /\ loads[runs[k].load].state = "fulfilled"
        /\ loads[runs[k].load].value # None

\* ------------------------------------------------------ claims of the callers
\* LivePreview is at rest: it is mounted, no debounce timer of its is pending
\* and no callback of its is running.
PreviewAtRest ==
    /\ app.lp.mounted
    /\ \A k \in RunIds :
          runs[k].caller = "LivePreview" => runs[k].pc \in {"done", "failed", "cancelled"}

\* The job LivePreview makes of the props as they are now.
LatestJob ==
    JobOf(app.props, selectedLogo, app.content, PreviewSize, app.props.borderWidth \div 2)

\* C25: whenever LivePreview is at rest, the canvas it last passed to
\* onCanvasReady, which is the one on its display canvas, was generated from
\* the props as they are now: a generation started for older props does not
\* deliver after one started for newer props.
C25_PreviewShowsLatestProps ==
    (PreviewAtRest /\ app.generatedCanvas # 0) =>
        /\ \E k \in RunIds : /\ runs[k].cur = app.generatedCanvas
                             /\ runs[k].job = LatestJob
        /\ app.lp.display = ShowOn(heap[app.generatedCanvas])

\* C26: while the LogoManager's isLoading is true its fetchStatus is
\* 'loading': a fetch in flight never shows as idle, success or error.
C26_LoadingShowsLoading == lm.isLoading => lm.fetchStatus = "loading"

\* ------------------------------------------------------- claims of the batch

Settled == {"done", "error"}

StatusOf(a, i) == a.batch.items[i].status

GivenTo(a, i) == a.batch.items[i].given

\* The calls of generateBatch so far, and the latest of them.
BatchCalls == {k \in RunIds : runs[k].caller = "generateBatch"}

LatestCall == CHOOSE k \in BatchCalls : \A j \in BatchCalls : j <= k

\* The statuses an item has been given come in turns of generating followed
\* by done or error, and its status is the last one given.
InTurns(a, i) ==
    LET g == GivenTo(a, i) IN
    /\ \A m \in 1..Len(g) :
          IF m % 2 = 1 THEN g[m] = "generating" ELSE g[m] \in Settled
    /\ StatusOf(a, i) = IF g = <<>> THEN "pending" ELSE g[Len(g)]

\* Where the loop of generateBatch stands in its c-th call: the items before
\* the current one have had c turns, the ones after it c - 1, and the current
\* one is generating until its turn is over; the progress follows; and at the
\* end every item is settled, the progress is 100 and isGenerating is false.
BatchInOrder ==
    /\ \A i \in DOMAIN app.batch.items : InTurns(app, i)
    /\ BatchCalls = {} =>
          /\ \A i \in DOMAIN app.batch.items : GivenTo(app, i) = <<>>
          /\ ~app.batch.isGenerating
    /\ BatchCalls # {} =>
          LET k == LatestCall
              c == Cardinality(BatchCalls)
              i == runs[k].item
              n == Len(app.batch.items)
              over == runs[k].pc \in {"pause", "done"}
          IN  /\ \A j \in BatchCalls \ {k} : runs[j].pc = "done"
              /\ i \in 1..n
              /\ \A j \in 1..(i - 1) : Len(GivenTo(app, j)) = 2 * c
              /\ \A j \in (i + 1)..n : Len(GivenTo(app, j)) = 2 * (c - 1)
              /\ Len(GivenTo(app, i)) = IF over THEN 2 * c ELSE 2 * c - 1
              /\ over => app.batch.progress = [done |-> i, of |-> n]
              /\ app.batch.isGenerating = (runs[k].pc # "done")
              /\ runs[k].pc = "done" =>
                    /\ i = n
                    /\ \A j \in 1..n : StatusOf(app, j) \in Settled
                    /\ app.batch.progress.done * 100 = 100 * app.batch.progress.of

\* A step gives a status to at most one item and takes none back.
BatchOnce ==
    /\ \A i \in DOMAIN app.batch.items :
          LET g == GivenTo(app, i)
              h == GivenTo(app', i)
          IN  Len(g) <= Len(h) /\ SubSeq(h, 1, Len(g)) = g
    /\ \A i, j \in DOMAIN app.batch.items :
          (GivenTo(app', i) # GivenTo(app, i) /\ GivenTo(app', j) # GivenTo(app, j))
             => i = j

\* Every item has had one turn at most, and started it from pending.
OneTurnEach ==
    \A i \in DOMAIN app.batch.items : Len(GivenTo(app, i)) <= 2

\* C27 as stated: generateBatch takes the items one at a time in list order;
\* each goes from pending to generating to done or error, exactly once; an
\* item that fails does not stop the ones after it; and when the loop is over
\* every item is done or error, the progress is 100 and isGenerating is false.
C27_PendingToSettledOnce ==
    [](BatchInOrder /\ OneTurnEach) /\ [][BatchOnce]_vars

\* C27, amended: in each call of generateBatch the items are taken one at a
\* time in list order; each goes from the status it has when the call starts
\* (pending, or done or error from an earlier call) to generating to done or
\* error, once in that call; an item that fails does not stop the ones after
\* it; and when the loop is over every item is done or error, the progress is
\* 100 and isGenerating is false.
C27_BatchInOrderOnce == [](BatchInOrder) /\ [][BatchOnce]_vars

\* The second call is over a list of three: in each call the first item was
\* generated, the second failed, and the third was generated after it.
C27_Witness ==
    /\ Cardinality(BatchCalls) = 2
    /\ runs[LatestCall].pc = "done"
    /\ Len(app.batch.items) = 3
    /\ GivenTo(app, 1) = <<"generating", "done", "generating", "done">>
    /\ GivenTo(app, 2) = <<"generating", "error", "generating", "error">>
    /\ GivenTo(app, 3) = <<"generating", "done", "generating", "done">>
    /\ app.batch.items[3].dataUrl # None
    /\ ~app.batch.isGenerating

\* ----------------------------------------------------- claims of the history

\* The last n items of a log, the latest first.
LatestFirst(log, n) == [i \in 1..n |-> log[Len(log) + 1 - i]]

\* C28: after any addToHistory and clearHistory calls from an empty history,
\* the list holds at most 20 items, newest first: it is the last 20 items
\* added since it was last cleared (all of them if fewer), the latest at the
\* head; so an add to a list of 20 drops the oldest, and clearHistory leaves
\* the list empty.
C28_HistoryNewestFirst ==
    raster.pc = "history" =>
        /\ Len(app.history) <= 20
        /\ app.history = LatestFirst(raster.log, Min2(Len(raster.log), 20))
        /\ \A i \in 1..(Len(app.history) - 1) :
              app.history[i].id > app.history[i + 1].id
        /\ raster.log = <<>> => app.history = <<>>

\* Twenty-one items were added since the list was last cleared, after an
\* earlier clear: the list holds twenty and the first of them is gone.
C28_Witness ==
    /\ raster.pc = "history"
    /\ Len(raster.log) = 21
    /\ raster.adds = 22
    /\ Len(app.history) = 20
    /\ app.history[1] = raster.log[21]
    /\ app.history[20] = raster.log[2]
    /\ \A i \in 1..20 : app.history[i] # raster.log[1]

====
